---- MODULE Spec2Model ----
(***************************************************************************)
(* WatchTogether: the room store (server/rooms.js), the Socket.io event    *)
(* handlers (server/index.js), the torrent streaming gateway               *)
(* (server/torrent.js) and the client's reconciliation logic (Room.jsx,    *)
(* TorrentPlayer.jsx).                                                     *)
(*                                                                         *)
(* Times are integers in milliseconds: a currentTime of 10.5 s is 10500,   *)
(* so that (Date.now() - lastUpdate) / 1000 seconds is the difference of   *)
(* the two timestamps in the same unit.                                    *)
(***************************************************************************)
EXTENDS Integers, Sequences, FiniteSets, TLC

VARIABLES
    rooms,        \* rooms.js `rooms`: Map roomId -> room record
    conn,         \* per socket: "new" (not yet connected), "open", "closed"
    ioRooms,      \* per socket: the Socket.io rooms it has joined (socket.join)
    sockRoomId,   \* per socket: socket.roomId
    sockUsername, \* per socket: socket.username
    now,          \* Date.now()
    last,         \* the last request handled by the server and what it emitted
    clientState,  \* torrent.js clientPromise: "none", "loading", "ready"
    waiting,      \* handlers suspended at `await getClient()`, in order
    torrents,     \* the WebTorrent client's torrents, by instance number
    errListeners, \* instances whose add registered a live client.once("error")
    activeTorrent, \* torrent.js activeTorrent: an instance number, or NoTorrent
    activeFile,   \* torrent.js activeFile: a file, or NoFile
    activeMagnet, \* torrent.js activeMagnet
    addError,     \* torrent.js addError
    resp,         \* the last HTTP response of the gateway
    replaced,     \* history: what the latest add tore down
    isRemoteAction, \* per client: Room.jsx isRemoteAction.current
    timers,       \* per client: settle timers (setTimeout) not yet fired
    player,       \* per client: the mounted player and its playback state
    lastTimeRef,  \* per client: Room.jsx lastTimeRef.current
    notifs,       \* per client: player notifications not yet delivered
    syncRef,      \* per client: Room.jsx syncRef.current, the snapshot received
    sent,         \* per client: its last step and the intents the step emitted
    toServer,     \* per client: the intents it emitted that the server has not handled
    toClient,     \* per client: the events relayed to it that it has not handled
    userActs,     \* history: how often the participants have used the controls of
                  \* a player, and whether each time the page was applying no
                  \* remote command
    tplayer,      \* per client: the magnetURI of its mounted TorrentPlayer, and
                  \* whether the page has ever mounted one
    gwReqs        \* the HTTP requests of the torrent players the gateway has not
                  \* handled yet

roomVars == <<rooms, conn, ioRooms, sockRoomId, sockUsername, now, last>>

gwVars == <<clientState, waiting, torrents, errListeners,
            activeTorrent, activeFile, activeMagnet, addError, resp, replaced>>

clVars == <<isRemoteAction, timers, player, lastTimeRef, notifs, syncRef, sent>>

\* the Socket.io connections between the pages and the server
netVars == <<toServer, toClient, userActs>>

\* the torrent players of the pages and their requests to the gateway
tpVars == <<tplayer, gwReqs>>

vars == <<roomVars, gwVars, clVars, netVars, tpVars>>

\* what the handlers of index.js, of torrent.js and of the client leave alone
notRoomVars == <<gwVars, clVars, netVars, tpVars>>
notGwVars == <<roomVars, clVars, netVars, tpVars>>
notClVars == <<roomVars, gwVars, netVars, tpVars>>

----------------------------------------------------------------------------
(* Bounds and input sets *)

\* Date.now() in ms, from 0 to MaxNow in steps of TickMs
MaxNow == 5000
TickMs == 2500

Sockets == {"s1", "s2", "s3"}
RoomIds == {"rA", "rB"}

\* JavaScript's null and undefined, and the falsy strings
Null == "null"
Undefined == "undefined"
Falsy == {Null, Undefined, ""}

Placeholder == "__placeholder__"

\* the display name each client types into the username modal ("" = none)
NameOf(s) == CASE s = "s1" -> "ann" [] s = "s2" -> "" [] OTHER -> "bob"

\* currentTime payloads of play / pause / seek, in ms
Times == {0, 10500}

\* video-change payloads: Room.jsx loadMedia / handleLocalFile (v3) and
\* loadVideo of the v2 room page, which sends no sourceType
VideoPayloads ==
    { [sourceType |-> "youtube", videoId |-> "vidA", url |-> Undefined, magnetURI |-> Undefined],
      [sourceType |-> "url", videoId |-> Undefined, url |-> "urlA", magnetURI |-> Undefined],
      [sourceType |-> "torrent", videoId |-> Undefined, url |-> Undefined, magnetURI |-> "magA"],
      [sourceType |-> "local", videoId |-> Undefined, url |-> Undefined, magnetURI |-> Undefined],
      [sourceType |-> Undefined, videoId |-> "vidB", url |-> Undefined, magnetURI |-> Undefined] }

----------------------------------------------------------------------------
(* rooms.js *)

\* a || b
Or(a, b) == IF a \in Falsy THEN b ELSE a

\* the users Map as a sequence of entries in insertion order
UserIds(users) == {users[i].socketId : i \in 1..Len(users)}

\* a set that moves an existing key to the end
MapSetReinsert(users, socketId, username) ==
    Append(SelectSeq(users, LAMBDA u : u.socketId # socketId),
           [socketId |-> socketId, username |-> username])

\* Map.prototype.set: overwrite in place, or append
MapSet(users, socketId, username) ==
    IF socketId \in UserIds(users)
    THEN [i \in 1..Len(users) |->
            IF users[i].socketId = socketId
            THEN [socketId |-> socketId, username |-> username]
            ELSE users[i]]
    ELSE Append(users, [socketId |-> socketId, username |-> username])

\* Map.prototype.delete
MapDelete(users, socketId) ==
    SelectSeq(users, LAMBDA u : u.socketId # socketId)

\* Map.prototype.get(socketId).username, or null
MapGetName(users, socketId) ==
    IF socketId \in UserIds(users)
    THEN (CHOOSE u \in {users[i] : i \in 1..Len(users)} : u.socketId = socketId).username
    ELSE Null

roomExists(rs, roomId) == roomId \in DOMAIN rs

NewRoom(t) ==
    [sourceType |-> "youtube", videoId |-> Null, url |-> Null, magnetURI |-> Null,
     currentTime |-> 0, isPlaying |-> FALSE, lastUpdate |-> t, users |-> <<>>]

\* rooms.set(roomId, room)
RoomsSet(rs, roomId, room) ==
    [r \in (DOMAIN rs) \cup {roomId} |-> IF r = roomId THEN room ELSE rs[r]]

\* rooms.delete(roomId)
RoomsDelete(rs, roomId) == [r \in (DOMAIN rs) \ {roomId} |-> rs[r]]

createRoom(rs, roomId, t) == RoomsSet(rs, roomId, NewRoom(t))

joinRoom(rs, roomId, socketId, username, t) ==
    LET rs1 == IF roomExists(rs, roomId) THEN rs ELSE createRoom(rs, roomId, t)
        room == rs1[roomId]
    IN RoomsSet(rs1, roomId,
                [room EXCEPT !.users = MapSet(room.users, socketId, Or(username, "Guest"))])

\* a leave that keeps the room when its last entry is removed
leaveRoomKeepingEmpty(rs, roomId, socketId) ==
    IF ~roomExists(rs, roomId)
    THEN [rooms |-> rs, remaining |-> 0, username |-> Null]
    ELSE LET room == rs[roomId]
             users == MapDelete(room.users, socketId)
         IN [rooms |-> RoomsSet(rs, roomId, [room EXCEPT !.users = users]),
             remaining |-> Len(users), username |-> MapGetName(room.users, socketId)]

\* returns the new registry with the function's result { remaining, username }
leaveRoom(rs, roomId, socketId) ==
    IF ~roomExists(rs, roomId)
    THEN [rooms |-> rs, remaining |-> 0, username |-> Null]
    ELSE LET room == rs[roomId]
             username == MapGetName(room.users, socketId)
             users == MapDelete(room.users, socketId)
         IN IF Len(users) = 0
            THEN [rooms |-> RoomsDelete(rs, roomId), remaining |-> 0, username |-> username]
            ELSE [rooms |-> RoomsSet(rs, roomId, [room EXCEPT !.users = users]),
                  remaining |-> Len(users), username |-> username]

\* an update that does not stamp lastUpdate
ApplyUpdatesUnstamped(room, updates, t) ==
    [f \in DOMAIN room |-> IF f \in DOMAIN updates THEN updates[f] ELSE room[f]]

\* updates: a record holding the provided fields only (the others are undefined)
ApplyUpdates(room, updates, t) ==
    [f \in DOMAIN room |->
        IF f = "lastUpdate" THEN t
        ELSE IF f \in DOMAIN updates THEN updates[f]
        ELSE room[f]]

\* an update that creates the room it does not find
updateRoomUpsert(rs, roomId, updates, t) ==
    LET rs1 == IF roomExists(rs, roomId) THEN rs ELSE createRoom(rs, roomId, t)
    IN RoomsSet(rs1, roomId, ApplyUpdates(rs1[roomId], updates, t))

updateRoom(rs, roomId, updates, t) ==
    IF ~roomExists(rs, roomId) THEN rs
    ELSE RoomsSet(rs, roomId, ApplyUpdates(rs[roomId], updates, t))

getUsersList(rs, roomId) ==
    IF ~roomExists(rs, roomId) THEN <<>> ELSE rs[roomId].users

\* a snapshot that reports the stored position only
LiveTimeStored(room, t) == room.currentTime

\* the "live" currentTime: currentTime is held in thousandths of a second, so that
\* currentTime + (Date.now() - lastUpdate) / 1000 is currentTime + (t - lastUpdate)
LiveTime(room, t) ==
    IF room.isPlaying
    THEN room.currentTime + (t - room.lastUpdate)
    ELSE room.currentTime

NoState == [found |-> FALSE]

getRoomState(rs, roomId, t) ==
    IF ~roomExists(rs, roomId) THEN NoState
    ELSE LET room == rs[roomId]
         IN [found |-> TRUE,
             sourceType |-> room.sourceType,
             videoId |-> room.videoId,
             url |-> room.url,
             magnetURI |-> room.magnetURI,
             currentTime |-> LiveTime(room, t),
             isPlaying |-> room.isPlaying,
             userCount |-> Len(room.users),
             users |-> getUsersList(rs, roomId)]

----------------------------------------------------------------------------
(* index.js: Socket.io routing *)

\* the sockets in Socket.io room roomId
IoRoom(roomId) == {s \in Sockets : roomId \in ioRooms[s]}

\* io.to(roomId): everyone in the room
IoTo(roomId) == IoRoom(roomId)

\* a relay that does not leave the sender out
SocketToAll(s, roomId) == IoRoom(roomId)

\* socket.to(roomId): everyone in the room except the socket itself
SocketTo(s, roomId) == IoRoom(roomId) \ {s}

Emit(event, to, payload) == [event |-> event, to |-> to, payload |-> payload]

\* what a handler was given and what it emitted: at is Date.now() during the
\* handler, existed tells whether the room was in the registry when it started
Handled(op, s, roomId, arg, out) ==
    [op |-> op, sock |-> s, roomId |-> roomId, arg |-> arg, out |-> out,
     at |-> now, existed |-> roomExists(rooms, roomId)]

\* broadcastUsersList: the emission it makes
broadcastUsersList(rs, roomId, to) ==
    Emit("users-list", to,
         SelectSeq(getUsersList(rs, roomId), LAMBDA u : u.socketId # Placeholder))

----------------------------------------------------------------------------
(* index.js: handlers *)

\* a client connects: io.on("connection")
Connect(s) ==
    /\ conn[s] = "new"
    /\ conn' = [conn EXCEPT ![s] = "open"]
    /\ UNCHANGED <<rooms, ioRooms, sockRoomId, sockUsername, now, last>>
    /\ UNCHANGED notRoomVars

\* POST /api/rooms: the room id is a fresh uuid prefix
PostRooms(roomId) ==
    /\ ~roomExists(rooms, roomId)
    /\ rooms' = joinRoom(rooms, roomId, Placeholder, "__system__", now)
    /\ last' = Handled("post-rooms", Null, roomId, Null, <<>>)
    /\ UNCHANGED <<conn, ioRooms, sockRoomId, sockUsername, now>>
    /\ UNCHANGED notRoomVars

\* GET /api/rooms/:roomId
GetRooms(roomId) ==
    /\ last' = Handled("get-rooms", Null, roomId, Null,
                       <<Emit("response", {}, getRoomState(rooms, roomId, now))>>)
    /\ UNCHANGED <<rooms, conn, ioRooms, sockRoomId, sockUsername, now>>
    /\ UNCHANGED notRoomVars

\* a join whose notice goes through io.to(roomId), the joiner included
OnJoinRoomEchoesNotice(s, roomId, username) ==
    /\ conn[s] = "open"
    /\ LET name == Or(username, "Guest")
           rs1 == leaveRoom(rooms, roomId, Placeholder).rooms
           rs2 == joinRoom(rs1, roomId, s, name, now)
           members == IoRoom(roomId) \cup {s}
       IN /\ ioRooms' = [ioRooms EXCEPT ![s] = @ \cup {roomId}]
          /\ sockRoomId' = [sockRoomId EXCEPT ![s] = roomId]
          /\ sockUsername' = [sockUsername EXCEPT ![s] = name]
          /\ rooms' = rs2
          /\ last' = Handled("join-room", s, roomId, username,
                 << Emit("sync-state", {s}, getRoomState(rs2, roomId, now)),
                    Emit("user-joined", members, [username |-> name, timestamp |-> now]),
                    broadcastUsersList(rs2, roomId, members) >>)
    /\ UNCHANGED <<conn, now>>
    /\ UNCHANGED notRoomVars

\* a join whose snapshot goes to the whole room instead of the joiner
OnJoinRoomSnapshotToRoom(s, roomId, username) ==
    /\ conn[s] = "open"
    /\ LET name == Or(username, "Guest")
           rs1 == leaveRoom(rooms, roomId, Placeholder).rooms
           rs2 == joinRoom(rs1, roomId, s, name, now)
           members == IoRoom(roomId) \cup {s}
       IN /\ ioRooms' = [ioRooms EXCEPT ![s] = @ \cup {roomId}]
          /\ sockRoomId' = [sockRoomId EXCEPT ![s] = roomId]
          /\ sockUsername' = [sockUsername EXCEPT ![s] = name]
          /\ rooms' = rs2
          /\ last' = Handled("join-room", s, roomId, username,
                 << Emit("sync-state", members, getRoomState(rs2, roomId, now)),
                    Emit("user-joined", members \ {s}, [username |-> name, timestamp |-> now]),
                    broadcastUsersList(rs2, roomId, members) >>)
    /\ UNCHANGED <<conn, now>>
    /\ UNCHANGED notRoomVars

\* join-room: socket.join puts the socket into the Socket.io room first, so that
\* socket.to(roomId) is the room without the joiner and io.to(roomId) the room
\* with the joiner
OnJoinRoom(s, roomId, username) ==
    /\ conn[s] = "open"
    /\ LET name == Or(username, "Guest")
           rs1 == leaveRoom(rooms, roomId, Placeholder).rooms
           rs2 == joinRoom(rs1, roomId, s, name, now)
           members == IoRoom(roomId) \cup {s}
       IN /\ ioRooms' = [ioRooms EXCEPT ![s] = @ \cup {roomId}]
          /\ sockRoomId' = [sockRoomId EXCEPT ![s] = roomId]
          /\ sockUsername' = [sockUsername EXCEPT ![s] = name]
          /\ rooms' = rs2
          /\ last' = Handled("join-room", s, roomId, username,
                 << Emit("sync-state", {s}, getRoomState(rs2, roomId, now)),
                    Emit("user-joined", members \ {s}, [username |-> name, timestamp |-> now]),
                    broadcastUsersList(rs2, roomId, members) >>)
    /\ UNCHANGED <<conn, now>>
    /\ UNCHANGED notRoomVars

\* a source change that keeps the playback position and flag
OnVideoChangeKeepsTime(s, roomId, p) ==
    /\ conn[s] = "open"
    /\ rooms' = updateRoom(rooms, roomId,
                    [sourceType |-> Or(p.sourceType, "youtube"),
                     videoId |-> Or(p.videoId, Null),
                     url |-> Or(p.url, Null),
                     magnetURI |-> Or(p.magnetURI, Null)], now)
    /\ last' = Handled("video-change", s, roomId, p,
                       <<Emit("video-change", SocketTo(s, roomId), p)>>)
    /\ UNCHANGED <<conn, ioRooms, sockRoomId, sockUsername, now>>
    /\ UNCHANGED notRoomVars

\* a source change that passes the payload fields on as they came, so that
\* updateRoom skips the undefined ones
OnVideoChangeMerging(s, roomId, p) ==
    /\ conn[s] = "open"
    /\ rooms' = updateRoom(rooms, roomId,
                    [f \in {g \in {"sourceType", "videoId", "url", "magnetURI"} :
                                p[g] # Undefined} |-> p[f]]
                    @@ [currentTime |-> 0, isPlaying |-> FALSE], now)
    /\ last' = Handled("video-change", s, roomId, p,
                       <<Emit("video-change", SocketTo(s, roomId), p)>>)
    /\ UNCHANGED <<conn, ioRooms, sockRoomId, sockUsername, now>>
    /\ UNCHANGED notRoomVars

OnVideoChange(s, roomId, p) ==
    /\ conn[s] = "open"
    /\ rooms' = updateRoom(rooms, roomId,
                    [sourceType |-> Or(p.sourceType, "youtube"),
                     videoId |-> Or(p.videoId, Null),
                     url |-> Or(p.url, Null),
                     magnetURI |-> Or(p.magnetURI, Null),
                     currentTime |-> 0,
                     isPlaying |-> FALSE], now)
    /\ last' = Handled("video-change", s, roomId, p,
                       <<Emit("video-change", SocketTo(s, roomId), p)>>)
    /\ UNCHANGED <<conn, ioRooms, sockRoomId, sockUsername, now>>
    /\ UNCHANGED notRoomVars

OnPlay(s, roomId, currentTime) ==
    /\ conn[s] = "open"
    /\ rooms' = updateRoom(rooms, roomId,
                    [currentTime |-> currentTime, isPlaying |-> TRUE], now)
    /\ last' = Handled("play", s, roomId, currentTime,
                       <<Emit("play", SocketTo(s, roomId), [currentTime |-> currentTime])>>)
    /\ UNCHANGED <<conn, ioRooms, sockRoomId, sockUsername, now>>
    /\ UNCHANGED notRoomVars

OnPause(s, roomId, currentTime) ==
    /\ conn[s] = "open"
    /\ rooms' = updateRoom(rooms, roomId,
                    [currentTime |-> currentTime, isPlaying |-> FALSE], now)
    /\ last' = Handled("pause", s, roomId, currentTime,
                       <<Emit("pause", SocketTo(s, roomId), [currentTime |-> currentTime])>>)
    /\ UNCHANGED <<conn, ioRooms, sockRoomId, sockUsername, now>>
    /\ UNCHANGED notRoomVars

\* a seek that also pauses the room
OnSeekPausing(s, roomId, currentTime) ==
    /\ conn[s] = "open"
    /\ rooms' = updateRoom(rooms, roomId,
                    [currentTime |-> currentTime, isPlaying |-> FALSE], now)
    /\ last' = Handled("seek", s, roomId, currentTime,
                       <<Emit("seek", SocketTo(s, roomId), [currentTime |-> currentTime])>>)
    /\ UNCHANGED <<conn, ioRooms, sockRoomId, sockUsername, now>>
    /\ UNCHANGED notRoomVars

OnSeek(s, roomId, currentTime) ==
    /\ conn[s] = "open"
    /\ LET room == getRoomState(rooms, roomId, now)
           playing == IF room.found THEN room.isPlaying ELSE FALSE
       IN rooms' = updateRoom(rooms, roomId,
                       [currentTime |-> currentTime, isPlaying |-> playing], now)
    /\ last' = Handled("seek", s, roomId, currentTime,
                       <<Emit("seek", SocketTo(s, roomId), [currentTime |-> currentTime])>>)
    /\ UNCHANGED <<conn, ioRooms, sockRoomId, sockUsername, now>>
    /\ UNCHANGED notRoomVars

\* a chat relay that leaves the sender out
OnSendMessageToOthers(s, roomId, text) ==
    /\ conn[s] = "open"
    /\ last' = Handled("send-message", s, roomId, text,
                 <<Emit("receive-message", SocketTo(s, roomId),
                        [type |-> "chat", username |-> Or(sockUsername[s], "Guest"),
                         text |-> text, timestamp |-> now])>>)
    /\ UNCHANGED <<rooms, conn, ioRooms, sockRoomId, sockUsername, now>>
    /\ UNCHANGED notRoomVars

OnSendMessage(s, roomId, text) ==
    /\ conn[s] = "open"
    /\ last' = Handled("send-message", s, roomId, text,
                 <<Emit("receive-message", IoTo(roomId),
                        [type |-> "chat", username |-> Or(sockUsername[s], "Guest"),
                         text |-> text, timestamp |-> now])>>)
    /\ UNCHANGED <<rooms, conn, ioRooms, sockRoomId, sockUsername, now>>
    /\ UNCHANGED notRoomVars

\* the socket has left its Socket.io rooms when "disconnect" is handled
OnDisconnect(s) ==
    /\ conn[s] = "open"
    /\ conn' = [conn EXCEPT ![s] = "closed"]
    /\ ioRooms' = [ioRooms EXCEPT ![s] = {}]
    /\ LET roomId == sockRoomId[s]
           to == IoRoom(roomId) \ {s}
       IN IF roomId \in Falsy
          THEN /\ rooms' = rooms
               /\ last' = Handled("disconnect", s, roomId, Null, <<>>)
          ELSE LET left == leaveRoom(rooms, roomId, s)
               IN /\ rooms' = left.rooms
                  /\ last' = Handled("disconnect", s, roomId, Null,
                        IF left.remaining > 0
                        THEN << Emit("user-left", to,
                                     [username |-> Or(left.username, "Guest"), timestamp |-> now]),
                                broadcastUsersList(left.rooms, roomId, to) >>
                        ELSE <<>>)
    /\ UNCHANGED <<sockRoomId, sockUsername, now>>
    /\ UNCHANGED notRoomVars

\* time passes
Tick ==
    /\ now < MaxNow
    /\ now' = now + TickMs
    /\ UNCHANGED <<rooms, conn, ioRooms, sockRoomId, sockUsername, last>>
    /\ UNCHANGED notRoomVars

----------------------------------------------------------------------------
(* torrent.js: the swarm library's data *)

MaxAdds == 2

Magnets == {"magA", "magB", "magN"}

File(stem, ext, length) == [stem |-> stem, ext |-> ext, length |-> length]

\* torrent.files once the metadata of a magnet is resolved
FilesOf(magnet) ==
    CASE magnet = "magA" -> << File("readme", ".txt", 20), File("sample", ".MKV", 5),
                               File("movie", ".mp4", 12) >>
      [] magnet = "magB" -> << File("clip", ".webm", 10) >>
      [] OTHER -> << File("notes", ".txt", 7), File("cover", ".jpg", 9) >>

\* t.progress in units of 1/10000: 50 is 0.005 and 100 is 0.01
ProgressLevels == <<0, 50, 100>>

NoTorrent == 0
NoFile == [none |-> TRUE]

VIDEO_EXTS == {".mp4", ".webm", ".mkv", ".avi", ".ogg", ".m4v", ".mov", ".m2ts", ".ts"}

\* String.prototype.toLowerCase on the extensions that occur
ToLowerCase(ext) ==
    CASE ext = ".MKV" -> ".mkv"
      [] ext = ".MP4" -> ".mp4"
      [] OTHER -> ext

\* the first of the elements that the stable sort by descending length puts first
RECURSIVE FirstLargest(_)
FirstLargest(seq) ==
    IF Len(seq) = 1 THEN seq[1]
    ELSE LET rest == FirstLargest(Tail(seq))
         IN IF seq[1].length >= rest.length THEN seq[1] ELSE rest

\* a selection that takes the first video file instead of the largest
findVideoFileFirst(files) ==
    LET videos == SelectSeq(files, LAMBDA f : ToLowerCase(f.ext) \in VIDEO_EXTS)
    IN IF Len(videos) = 0 THEN NoFile ELSE videos[1]

findVideoFile(files) ==
    LET videos == SelectSeq(files, LAMBDA f : ToLowerCase(f.ext) \in VIDEO_EXTS)
    IN IF Len(videos) = 0 THEN NoFile ELSE FirstLargest(videos)

----------------------------------------------------------------------------
(* torrent.js: the module state as one record, so that the continuations of  *)
(* suspended handlers can be composed                                        *)

G == [torrents |-> torrents, errListeners |-> errListeners,
      activeTorrent |-> activeTorrent, activeFile |-> activeFile,
      activeMagnet |-> activeMagnet, addError |-> addError, resp |-> resp,
      replaced |-> replaced]

SetG(g) ==
    /\ torrents' = g.torrents
    /\ errListeners' = g.errListeners
    /\ activeTorrent' = g.activeTorrent
    /\ activeFile' = g.activeFile
    /\ activeMagnet' = g.activeMagnet
    /\ addError' = g.addError
    /\ resp' = g.resp
    /\ replaced' = g.replaced

\* client.torrents: the instances the WebTorrent client holds
ClientTorrents(ts) == {i \in 1..Len(ts) : ts[i].state \in {"pending", "ready"}}

\* client.remove(torrent); a torrent that is already gone makes it throw, which
\* the handlers catch
ClientRemove(ts, id) ==
    [i \in 1..Len(ts) |-> IF i = id THEN [ts[i] EXCEPT !.state = "destroyed"] ELSE ts[i]]

\* client.add(magnetURI, opts, callback): a new torrent whose metadata is pending;
\* the library refuses a torrent it already holds ("duplicate"): that instance
\* gets no metadata callback and can only fail
ClientAdd(ts, magnet) ==
    Append(ts, [magnet |-> magnet,
                state |-> IF \E i \in ClientTorrents(ts) : ts[i].magnet = magnet
                          THEN "duplicate" ELSE "pending",
                progress |-> 0])

\* a response, with the Range header of the request when it is a stream request
Served(op, status, body, req) == [op |-> op, status |-> status, body |-> body, req |-> req]
Json(op, status, body) == Served(op, status, body, [present |-> FALSE, text |-> <<>>])

\* the body of GET /api/torrent/status
Status(g) ==
    IF g.addError # Null
    THEN [status |-> "error", error |-> g.addError]
    ELSE IF g.activeTorrent = NoTorrent
    THEN [status |-> IF g.activeMagnet # Null THEN "connecting" ELSE "idle",
          progress |-> 0, fileName |-> Null, fileSize |-> 0]
    ELSE LET t == g.torrents[g.activeTorrent]
             f == g.activeFile
         IN [status |-> IF f # NoFile
                        THEN (IF t.progress >= 100 THEN "streaming" ELSE "downloading")
                        ELSE "no-video",
             progress |-> t.progress,
             fileName |-> IF f # NoFile THEN <<f.stem, f.ext>> ELSE Null,
             fileSize |-> IF f # NoFile THEN f.length ELSE 0,
             torrentName |-> t.magnet,
             files |-> FilesOf(t.magnet),
             ready |-> f # NoFile /\ t.progress >= 50]

\* nothing was torn down
NoReplaced == [id |-> NoTorrent, status |-> "idle"]

\* POST /api/torrent/add, from `await getClient()` on
AddContinue(g, magnetURI) ==
    LET g1 == IF g.activeTorrent # NoTorrent
              THEN [g EXCEPT !.torrents = ClientRemove(g.torrents, g.activeTorrent),
                             !.activeTorrent = NoTorrent,
                             !.activeFile = NoFile,
                             !.activeMagnet = Null,
                             !.addError = Null,
                             !.replaced = [id |-> g.activeTorrent,
                                           status |-> Status(g).status]]
              ELSE [g EXCEPT !.replaced = NoReplaced]
        ts == ClientAdd(g1.torrents, magnetURI)
    IN [g1 EXCEPT !.activeMagnet = magnetURI,
                  !.addError = Null,
                  !.torrents = ts,
                  !.errListeners = @ \cup {Len(ts)},
                  !.resp = Json("add", 200, [ok |-> TRUE, status |-> "adding"])]

\* the continuations of the suspended handlers, in the order they were suspended
RECURSIVE RunWaiting(_, _)
RunWaiting(g, ws) ==
    IF ws = <<>> THEN g
    ELSE RunWaiting(AddContinue(g, Head(ws)), Tail(ws))

\* adds accepted so far: each one creates a torrent instance
Adds == Len(torrents) + Len(waiting)

\* the handler of POST /api/torrent/add, with at most max adds accepted
AddRequest(magnetURI, max) ==
    /\ IF magnetURI \in Falsy
       THEN /\ resp' = Json("add", 400, [error |-> "magnetURI is required"])
            /\ UNCHANGED <<clientState, waiting, torrents, errListeners,
                           activeTorrent, activeFile, activeMagnet, addError, replaced>>
       ELSE IF activeMagnet = magnetURI /\ activeTorrent # NoTorrent
       THEN /\ resp' = Json("add", 200, [ok |-> TRUE, status |-> "already-active"])
            /\ UNCHANGED <<clientState, waiting, torrents, errListeners,
                           activeTorrent, activeFile, activeMagnet, addError, replaced>>
       ELSE /\ Adds < max
            /\ IF clientState = "ready"
               THEN \* the awaited promise is resolved: the rest runs as a microtask,
                    \* before any other request or swarm event
                    /\ SetG(AddContinue(G, magnetURI))
                    /\ UNCHANGED <<clientState, waiting>>
               ELSE \* getClient() starts the import on the first call; the handler is
                    \* suspended until the import resolves
                    /\ clientState' = "loading"
                    /\ waiting' = Append(waiting, magnetURI)
                    /\ UNCHANGED <<torrents, errListeners, activeTorrent, activeFile,
                                   activeMagnet, addError, resp, replaced>>

\* POST /api/torrent/add
PostAdd(magnetURI, max) ==
    /\ UNCHANGED notGwVars
    /\ AddRequest(magnetURI, max)

\* import("webtorrent") resolves: the suspended handlers continue one after the
\* other in the same microtask checkpoint
ClientLoaded ==
    /\ clientState = "loading"
    /\ clientState' = "ready"
    /\ waiting' = <<>>
    /\ SetG(RunWaiting(G, waiting))
    /\ UNCHANGED notGwVars

\* the callback of client.add: the metadata of instance id is resolved
OnTorrent(id) ==
    /\ id \in 1..Len(torrents)
    /\ torrents[id].state = "pending"
    /\ torrents' = [torrents EXCEPT ![id].state = "ready"]
    /\ activeTorrent' = id
    /\ activeFile' = findVideoFile(FilesOf(torrents[id].magnet))
    /\ UNCHANGED <<clientState, waiting, errListeners, activeMagnet, addError, resp, replaced>>
    /\ UNCHANGED notGwVars

\* the swarm delivers pieces of instance id
Download(id) ==
    /\ id \in 1..Len(torrents)
    /\ torrents[id].state = "ready"
    /\ \E k \in 1..(Len(ProgressLevels) - 1) :
          /\ torrents[id].progress = ProgressLevels[k]
          /\ torrents' = [torrents EXCEPT ![id].progress = ProgressLevels[k + 1]]
    /\ UNCHANGED <<clientState, waiting, errListeners,
                   activeTorrent, activeFile, activeMagnet, addError, resp, replaced>>
    /\ UNCHANGED notGwVars

\* torrent.on("error"): a fatal error of an instance whose metadata callback ran;
\* the library destroys the torrent
OnTorrentError(id) ==
    /\ id \in 1..Len(torrents)
    /\ torrents[id].state = "ready"
    /\ torrents' = [torrents EXCEPT ![id].state = "destroyed"]
    /\ addError' = "torrent error"
    /\ UNCHANGED <<clientState, waiting, errListeners,
                   activeTorrent, activeFile, activeMagnet, resp, replaced>>
    /\ UNCHANGED notGwVars

\* client.once("error", onError): an add fails (e.g. an invalid magnet) before its
\* metadata callback; every listener still registered runs, once
OnClientError(id) ==
    /\ id \in 1..Len(torrents)
    /\ torrents[id].state \in {"pending", "duplicate"}
    /\ errListeners # {}
    /\ torrents' = [torrents EXCEPT ![id].state = "destroyed"]
    /\ errListeners' = {}
    /\ addError' = "add error"
    /\ UNCHANGED <<clientState, waiting, activeTorrent, activeFile, activeMagnet, resp,
                   replaced>>
    /\ UNCHANGED notGwVars

\* setTimeout(() => client.removeListener("error", onError), 30000)
ListenerTimeout(id) ==
    /\ id \in errListeners
    /\ errListeners' = errListeners \ {id}
    /\ UNCHANGED <<clientState, waiting, torrents,
                   activeTorrent, activeFile, activeMagnet, addError, resp, replaced>>
    /\ UNCHANGED notGwVars

\* the handler of POST /api/torrent/remove; activeTorrent is set only after the
\* client is loaded, so its `await getClient()` never waits for the import
RemoveRequest ==
    /\ torrents' = IF activeTorrent # NoTorrent
                   THEN ClientRemove(torrents, activeTorrent)
                   ELSE torrents
    /\ activeTorrent' = NoTorrent
    /\ activeFile' = NoFile
    /\ activeMagnet' = Null
    /\ addError' = Null
    /\ resp' = Json("remove", 200, [ok |-> TRUE])
    /\ replaced' = NoReplaced
    /\ UNCHANGED <<clientState, waiting, errListeners>>

\* POST /api/torrent/remove
PostRemove ==
    /\ RemoveRequest
    /\ UNCHANGED notGwVars

\* GET /api/torrent/status
GetStatus ==
    /\ resp' = Json("status", 200, Status(G))
    /\ UNCHANGED <<clientState, waiting, torrents, errListeners,
                   activeTorrent, activeFile, activeMagnet, addError, replaced>>
    /\ UNCHANGED notGwVars

----------------------------------------------------------------------------
(* torrent.js: GET /api/torrent/stream.  Strings are sequences of characters,  *)
(* numbers are JavaScript numbers: an integer or NaN.                          *)

Num(n) == [nan |-> FALSE, val |-> n]
NaN == [nan |-> TRUE, val |-> 0]

\* a subtraction with its operands exchanged
JsSubSwapped(a, b) == IF a.nan \/ b.nan THEN [nan |-> TRUE, val |-> 0]
                      ELSE [nan |-> FALSE, val |-> b.val - a.val]

\* a - b + 1 and the like on JavaScript numbers
JsSub(a, b) == IF a.nan \/ b.nan THEN NaN ELSE Num(a.val - b.val)
JsAdd(a, b) == IF a.nan \/ b.nan THEN NaN ELSE Num(a.val + b.val)

DigitChars == <<"0", "1", "2", "3", "4", "5", "6", "7", "8", "9">>
IsDigit(c) == \E d \in 1..10 : DigitChars[d] = c
DigitVal(c) == (CHOOSE d \in 1..10 : DigitChars[d] = c) - 1

\* String(n) for an integer n >= 0
RECURSIVE NatToString(_)
NatToString(n) ==
    IF n < 10 THEN <<DigitChars[n + 1]>>
    ELSE NatToString(n \div 10) \o <<DigitChars[(n % 10) + 1]>>

\* `${x}` for a JavaScript number
NumToString(x) ==
    IF x.nan THEN <<"N", "a", "N">>
    ELSE IF x.val < 0 THEN <<"-">> \o NatToString(0 - x.val)
    ELSE NatToString(x.val)

\* the value of the longest prefix of digits of str, read after acc
RECURSIVE DigitsValue(_, _)
DigitsValue(str, acc) ==
    IF str = <<>> \/ ~IsDigit(Head(str)) THEN acc
    ELSE DigitsValue(Tail(str), acc * 10 + DigitVal(Head(str)))

RECURSIVE TrimStart(_)
TrimStart(str) ==
    IF str # <<>> /\ Head(str) = " " THEN TrimStart(Tail(str)) ELSE str

\* parseInt(str, 10)
parseInt(str) ==
    LET t == TrimStart(str)
        neg == t # <<>> /\ Head(t) = "-"
        u == IF t # <<>> /\ Head(t) \in {"-", "+"} THEN Tail(t) ELSE t
    IN IF u = <<>> \/ ~IsDigit(Head(u)) THEN NaN
       ELSE Num(IF neg THEN 0 - DigitsValue(u, 0) ELSE DigitsValue(u, 0))

StartsWith(str, pre) ==
    Len(str) >= Len(pre) /\ SubSeq(str, 1, Len(pre)) = pre

\* str.replace(pattern, ""): the first occurrence of the literal pattern is dropped
RECURSIVE ReplaceFirst(_, _)
ReplaceFirst(str, pattern) ==
    IF str = <<>> THEN <<>>
    ELSE IF StartsWith(str, pattern) THEN SubSeq(str, Len(pattern) + 1, Len(str))
    ELSE <<Head(str)>> \o ReplaceFirst(Tail(str), pattern)

\* str.split(sep) for a one-character separator
RECURSIVE Split(_, _)
Split(str, sep) ==
    IF \A i \in 1..Len(str) : str[i] # sep THEN <<str>>
    ELSE LET k == CHOOSE i \in 1..Len(str) :
                     str[i] = sep /\ \A j \in 1..(i - 1) : str[j] # sep
         IN <<SubSeq(str, 1, k - 1)>> \o Split(SubSeq(str, k + 1, Len(str)), sep)

BytesEq == <<"b", "y", "t", "e", "s", "=">>

\* mimeMap[ext] || "video/mp4", ext being the lower-cased text after the last dot
MimeOf(file) ==
    LET ext == ToLowerCase(file.ext)
    IN CASE ext \in {".mp4", ".m4v"} -> "video/mp4"
         [] ext = ".webm" -> "video/webm"
         [] ext = ".mkv" -> "video/x-matroska"
         [] ext = ".avi" -> "video/x-msvideo"
         [] ext = ".ogg" -> "video/ogg"
         [] ext = ".mov" -> "video/quicktime"
         [] ext \in {".ts", ".m2ts"} -> "video/mp2t"
         [] OTHER -> "video/mp4"

\* req.headers.range: the header's text, or none
Header(text) == [present |-> TRUE, text |-> text]
NoHeader == [present |-> FALSE, text |-> <<>>]

\* the response to a stream request whose Range header is hdr
StreamResponse(file, hdr) ==
    IF file = NoFile
    THEN Json("stream", 404, [error |-> "No video file available. Add a torrent first."])
    ELSE LET fileSize == file.length
             contentType == MimeOf(file)
             range == hdr.text
         IN IF hdr.present /\ range # <<>>
            THEN LET parts == Split(ReplaceFirst(range, BytesEq), "-")
                     start == parseInt(parts[1])
                     end == IF Len(parts) >= 2 /\ parts[2] # <<>>
                            THEN parseInt(parts[2])
                            ELSE Num(fileSize - 1)
                     chunkSize == JsAdd(JsSub(end, start), Num(1))
                 IN Json("stream", 206,
                         [ContentRange |-> <<"b", "y", "t", "e", "s", " ">> \o NumToString(start)
                                           \o <<"-">> \o NumToString(end)
                                           \o <<"/">> \o NatToString(fileSize),
                          AcceptRanges |-> "bytes",
                          ContentLength |-> chunkSize,
                          ContentType |-> contentType,
                          read |-> [file |-> file, start |-> start, end |-> end]])
            ELSE Json("stream", 200,
                      [ContentLength |-> Num(fileSize),
                       ContentType |-> contentType,
                       AcceptRanges |-> "bytes",
                       read |-> [file |-> file, start |-> Num(0), end |-> Num(fileSize - 1)]])

\* a stream handler without the test of activeFile: it answers for an empty file
GetStreamWithoutFileTest(hdr) ==
    /\ resp' = LET file == IF activeFile = NoFile THEN File("", ".mp4", 0) ELSE activeFile
                    r == StreamResponse(file, hdr)
                IN Served(r.op, r.status, r.body, hdr)
    /\ UNCHANGED <<clientState, waiting, torrents, errListeners,
                   activeTorrent, activeFile, activeMagnet, addError, replaced>>
    /\ UNCHANGED notGwVars

\* GET /api/torrent/stream
GetStream(hdr) ==
    /\ resp' = LET r == StreamResponse(activeFile, hdr)
                IN Served(r.op, r.status, r.body, hdr)
    /\ UNCHANGED <<clientState, waiting, torrents, errListeners,
                   activeTorrent, activeFile, activeMagnet, addError, replaced>>
    /\ UNCHANGED notGwVars

\* a read failure that is recorded on the transfer
StreamErrorRecorded ==
    /\ resp.op = "stream"
    /\ resp.status \in {200, 206}
    /\ resp' = Served("stream-error", resp.status, resp.body, resp.req)
    /\ addError' = "stream error"
    /\ UNCHANGED <<clientState, waiting, torrents, errListeners,
                   activeTorrent, activeFile, activeMagnet, replaced>>
    /\ UNCHANGED notGwVars

\* stream.on("error"): the read stream of the request answered last fails.  The
\* headers went out with writeHead, so res.headersSent is true and no 500 is
\* written: the response keeps its status and ends short.
StreamError ==
    /\ resp.op = "stream"
    /\ resp.status \in {200, 206}
    /\ resp' = Served("stream-error", resp.status, resp.body, resp.req)
    /\ UNCHANGED <<clientState, waiting, torrents, errListeners,
                   activeTorrent, activeFile, activeMagnet, addError, replaced>>
    /\ UNCHANGED notGwVars

\* the Range headers requested
RangeNums == {0, 9, 11, 12}
GatewayNums == {0, 12}

RangeOf(s, e) == BytesEq \o NatToString(s) \o <<"-">> \o NatToString(e)
RangeFrom(s) == BytesEq \o NatToString(s) \o <<"-">>

\* the headers tried against every state of the gateway
GatewayHeaders ==
    {Header(RangeOf(s, e)) : s \in GatewayNums, e \in GatewayNums} \cup {NoHeader}

RangeHeaders ==
    {Header(RangeOf(s, e)) : s \in RangeNums, e \in RangeNums}
    \cup {Header(RangeFrom(s)) : s \in RangeNums}
    \cup {NoHeader, Header(<<>>),
          Header(BytesEq \o <<"-", "9">>), Header(BytesEq \o <<"x", "-", "9">>)}

----------------------------------------------------------------------------
(* Room.jsx, TorrentPlayer.jsx: the client.  A player is the YouTube IFrame  *)
(* player ("youtube") or the <video> element of TorrentPlayer ("video").     *)
(* Its notifications reach the handlers asynchronously.                      *)

MaxTimers == 2
MaxNotifs == 2

\* player positions in ms
Positions == {0, 20000, 21500, 22000, 50000}

\* how far playback advances between two observations
PlayStep == 1500

\* YT.PlayerState
YT_PLAYING == 1
YT_PAUSED == 2

NoPlayer == [kind |-> "none", src |-> Null, ready |-> FALSE, pos |-> 0, playing |-> FALSE]

Intent(event, roomId, currentTime) ==
    [event |-> event, roomId |-> roomId, currentTime |-> currentTime]

\* the room of the page the client has open
RoomOf(c) == "rA"

\* a notification of the player: a YouTube state change, or a <video> event
Notif(type, data, ended) == [type |-> type, data |-> data, ended |-> ended]
NoNotif == Notif("none", 0, FALSE)

\* the notification the player raises when commanded or used
PlayNotif(kind) ==
    IF kind = "youtube" THEN Notif("statechange", YT_PLAYING, FALSE)
    ELSE Notif("play", 0, FALSE)
PauseNotif(kind, ended) ==
    IF kind = "youtube" THEN Notif("statechange", YT_PAUSED, ended)
    ELSE Notif("pause", 0, ended)
SeekNotif(kind) == Notif("seeked", 0, FALSE)

\* the player once it is sought / started / paused, with the notifications raised
\* (the YouTube player has no notification for a seek)
Sought(pl, q, time) ==
    [player |-> [pl EXCEPT !.pos = time],
     notifs |-> IF pl.kind = "youtube" THEN q ELSE Append(q, SeekNotif(pl.kind))]
Started(pl, q) ==
    [player |-> [pl EXCEPT !.playing = TRUE],
     notifs |-> IF pl.playing THEN q ELSE Append(q, PlayNotif(pl.kind))]
Paused(pl, q, ended) ==
    [player |-> [pl EXCEPT !.playing = FALSE],
     notifs |-> IF pl.playing THEN Append(q, PauseNotif(pl.kind, ended)) ELSE q]

\* Room.jsx seekTo / playPlayer / pausePlayer: nothing without a player
seekTo(pl, q, time) ==
    IF pl.ready THEN Sought(pl, q, time) ELSE [player |-> pl, notifs |-> q]
playPlayer(pl, q) ==
    IF pl.ready THEN Started(pl, q) ELSE [player |-> pl, notifs |-> q]
pausePlayer(pl, q) ==
    IF pl.ready THEN Paused(pl, q, FALSE) ELSE [player |-> pl, notifs |-> q]

\* a step of client c as its handlers saw it: the suppression flag, the player's
\* position and the last observed position when the step began, the notification
\* delivered (if any) and the intents emitted
Stepped(step, c, notif, out) ==
    [step |-> step, flag |-> isRemoteAction[c], pos |-> player[c].pos,
     lastTime |-> lastTimeRef[c], notif |-> notif, out |-> out]

ClientStep(c, flag, tm, pq, ltr, stepped) ==
    /\ isRemoteAction' = [isRemoteAction EXCEPT ![c] = flag]
    /\ timers' = [timers EXCEPT ![c] = tm]
    /\ player' = [player EXCEPT ![c] = pq.player]
    /\ notifs' = [notifs EXCEPT ![c] = pq.notifs]
    /\ lastTimeRef' = [lastTimeRef EXCEPT ![c] = ltr]
    /\ sent' = [sent EXCEPT ![c] = stepped]
    /\ UNCHANGED syncRef
    /\ UNCHANGED notClVars

Same(c) == [player |-> player[c], notifs |-> notifs[c]]

\* the media the user loads in the input bar: a YouTube id, or a URL
LoadedBy(kind) == IF kind = "youtube" THEN "vidB" ELSE "urlB"

\* the user loads media and the page renders a player for it: <YouTubePlayer>,
\* or <TorrentPlayer> / <HTML5Player>
Mount(c, kind) ==
    /\ player[c].kind = "none"
    /\ ClientStep(c, isRemoteAction[c], timers[c],
                  [player |-> [NoPlayer EXCEPT !.kind = kind, !.src = LoadedBy(kind)],
                   notifs |-> notifs[c]],
                  lastTimeRef[c], Stepped("mount", c, NoNotif, <<>>))

\* syncRef = useRef(null)
NoSync == [none |-> TRUE]

\* a sync-state payload: the fields of getRoomState that the page reads
SyncState(sourceType, videoId, url, magnetURI, currentTime, isPlaying) ==
    [sourceType |-> sourceType, videoId |-> videoId, url |-> url,
     magnetURI |-> magnetURI, currentTime |-> currentTime, isPlaying |-> isPlaying]

\* the snapshots a joiner can receive: of a new room, of a room with a YouTube
\* video, a direct URL or a magnet link, and of a room in local-file mode
SyncStates ==
    { SyncState("youtube", Null, Null, Null, 0, FALSE),
      SyncState("youtube", "vidA", Null, Null, 20000, TRUE),
      SyncState("youtube", "vidA", Null, Null, 20000, FALSE),
      SyncState("url", Null, "urlA", Null, 20000, TRUE),
      SyncState("url", Null, "urlA", Null, 0, FALSE),
      SyncState("torrent", Null, Null, "magA", 20000, TRUE),
      SyncState("local", Null, Null, Null, 20000, TRUE) }

\* the player the page renders for a snapshot, and the source it is given:
\* mediaMode, setVideoId / setDirectUrl / setMagnetURI and hasMedia
RenderedFor(state) ==
    LET mode == Or(state.sourceType, "youtube")
    IN IF mode = "youtube" /\ state.videoId \notin Falsy
       THEN [NoPlayer EXCEPT !.kind = "youtube", !.src = state.videoId]
       ELSE IF mode = "url" /\ state.url \notin Falsy
       THEN [NoPlayer EXCEPT !.kind = "video", !.src = state.url]
       ELSE IF mode = "torrent" /\ state.magnetURI \notin Falsy
       THEN [NoPlayer EXCEPT !.kind = "video", !.src = state.magnetURI]
       ELSE NoPlayer

\* socket.on("sync-state"): the reply to the join-room the page emits when it
\* opens; the source is set, the player for it is rendered, the snapshot is kept
OnSyncState(c, state) ==
    /\ syncRef[c] = NoSync
    /\ player[c].kind = "none"
    /\ syncRef' = [syncRef EXCEPT ![c] = state]
    /\ player' = [player EXCEPT ![c] = RenderedFor(state)]
    /\ sent' = [sent EXCEPT ![c] = Stepped("sync-state", c, NoNotif, <<>>)]
    /\ UNCHANGED <<isRemoteAction, timers, lastTimeRef, notifs>>
    /\ UNCHANGED notClVars

\* onYTReady starting the player whatever the snapshot's isPlaying
onYTReadyAlwaysPlaying(c, pl, q) ==
    LET sync == syncRef[c]
    IN IF sync # NoSync /\ sync.videoId \notin Falsy
       THEN LET a == Sought(pl, q, sync.currentTime)
            IN Started(a.player, a.notifs)
       ELSE [player |-> pl, notifs |-> q]

\* onYTReady: the kept snapshot is applied to the player that became ready
onYTReady(c, pl, q) ==
    LET sync == syncRef[c]
    IN IF sync # NoSync /\ sync.videoId \notin Falsy
       THEN LET a == Sought(pl, q, sync.currentTime)
            IN IF sync.isPlaying THEN Started(a.player, a.notifs) ELSE a
       ELSE [player |-> pl, notifs |-> q]

\* onHTML5Ready (sync.currentTime || 0 is the currentTime, a number)
onHTML5Ready(c, pl, q) ==
    LET sync == syncRef[c]
    IN IF sync # NoSync /\ (sync.url \notin Falsy \/ sync.magnetURI \notin Falsy
                              \/ sync.sourceType = "local")
       THEN LET a == Sought(pl, q, sync.currentTime)
            IN IF sync.isPlaying THEN Started(a.player, a.notifs) ELSE a
       ELSE [player |-> pl, notifs |-> q]

\* the player reports that it is ready: playerRef.current is set and onYTReady /
\* onHTML5Ready runs
OnReady(c) ==
    /\ player[c].kind # "none"
    /\ ~player[c].ready
    /\ LET pl == [player[c] EXCEPT !.ready = TRUE]
       IN ClientStep(c, isRemoteAction[c], timers[c],
                     IF pl.kind = "youtube" THEN onYTReady(c, pl, notifs[c])
                     ELSE onHTML5Ready(c, pl, notifs[c]),
                     lastTimeRef[c], Stepped("ready", c, NoNotif, <<>>))

\* socket.on("play")
OnRemotePlay(c, currentTime) ==
    /\ timers[c] < MaxTimers
    /\ LET a == seekTo(player[c], notifs[c], currentTime)
           b == playPlayer(a.player, a.notifs)
       IN /\ Len(b.notifs) <= MaxNotifs
          /\ ClientStep(c, TRUE, timers[c] + 1, b, lastTimeRef[c], Stepped("remote-play", c, NoNotif, <<>>))

\* socket.on("pause")
OnRemotePause(c, currentTime) ==
    /\ timers[c] < MaxTimers
    /\ LET a == seekTo(player[c], notifs[c], currentTime)
           b == pausePlayer(a.player, a.notifs)
       IN /\ Len(b.notifs) <= MaxNotifs
          /\ ClientStep(c, TRUE, timers[c] + 1, b, lastTimeRef[c], Stepped("remote-pause", c, NoNotif, <<>>))

\* socket.on("seek")
OnRemoteSeek(c, currentTime) ==
    /\ timers[c] < MaxTimers
    /\ LET a == seekTo(player[c], notifs[c], currentTime)
       IN /\ Len(a.notifs) <= MaxNotifs
          /\ ClientStep(c, TRUE, timers[c] + 1, a, lastTimeRef[c], Stepped("remote-seek", c, NoNotif, <<>>))

\* YT.PlayerState.CUED
YT_CUED == 5

\* the player the page shows once a remote source change is rendered: a YouTube
\* player that is already there cues the new video (YouTubePlayer.jsx effect on
\* videoId), any other source is loaded by a player that is not ready yet; in
\* local-file mode, and for a payload without sourceType, no source is set and
\* the player stays only if the mode still renders it
Changed(pl, q, p) ==
    LET mode == Or(p.sourceType, "youtube")
        fresh(kind, src) == [player |-> [NoPlayer EXCEPT !.kind = kind, !.src = src],
                             notifs |-> <<>>]
    IN IF p.sourceType = "youtube"
       THEN IF pl.kind = "youtube"
            THEN [player |-> [pl EXCEPT !.src = p.videoId, !.pos = 0, !.playing = FALSE],
                  notifs |-> IF pl.ready
                             THEN Append(q, Notif("statechange", YT_CUED, FALSE))
                             ELSE q]
            ELSE fresh("youtube", p.videoId)
       ELSE IF p.sourceType = "url" THEN fresh("video", p.url)
       ELSE IF p.sourceType = "torrent" THEN fresh("video", p.magnetURI)
       ELSE IF mode = "youtube" /\ pl.kind = "youtube" THEN [player |-> pl, notifs |-> q]
       ELSE IF mode = "local" /\ pl.kind = "video" /\ pl.src \in {"urlA", "urlB"}
       THEN [player |-> pl, notifs |-> q]
       ELSE [player |-> NoPlayer, notifs |-> <<>>]

\* a remote source change that starts no timer
OnRemoteVideoChangeNoTimer(c, p) ==
    /\ timers[c] < MaxTimers
    /\ LET b == Changed(player[c], notifs[c], p)
       IN /\ Len(b.notifs) <= MaxNotifs
          /\ ClientStep(c, TRUE, timers[c], b, lastTimeRef[c],
                        Stepped("remote-video-change", c, NoNotif, <<>>))

\* socket.on("video-change"): every branch starts one timer that clears the flag
OnRemoteVideoChange(c, p) ==
    /\ timers[c] < MaxTimers
    /\ LET b == Changed(player[c], notifs[c], p)
       IN /\ Len(b.notifs) <= MaxNotifs
          /\ ClientStep(c, TRUE, timers[c] + 1, b, lastTimeRef[c],
                        Stepped("remote-video-change", c, NoNotif, <<>>))

\* the setTimeout callback of a remote command: () => (isRemoteAction.current = false)
OnSettle(c) ==
    /\ timers[c] > 0
    /\ ClientStep(c, FALSE, timers[c] - 1, Same(c), lastTimeRef[c], Stepped("settle", c, NoNotif, <<>>))

\* the user presses play / pause, scrubs, or the media ends
UserPlay(c) ==
    /\ player[c].ready /\ ~player[c].playing
    /\ Len(notifs[c]) < MaxNotifs
    /\ ClientStep(c, isRemoteAction[c], timers[c], Started(player[c], notifs[c]),
                  lastTimeRef[c], Stepped("user-play", c, NoNotif, <<>>))

UserPause(c, ended) ==
    /\ player[c].ready /\ player[c].playing
    /\ Len(notifs[c]) < MaxNotifs
    /\ ClientStep(c, isRemoteAction[c], timers[c], Paused(player[c], notifs[c], ended),
                  lastTimeRef[c], Stepped("user-pause", c, NoNotif, <<>>))

UserSeek(c, time) ==
    /\ player[c].ready /\ player[c].pos # time
    /\ Len(Sought(player[c], notifs[c], time).notifs) <= MaxNotifs
    /\ ClientStep(c, isRemoteAction[c], timers[c], Sought(player[c], notifs[c], time),
                  lastTimeRef[c], Stepped("user-seek", c, NoNotif, <<>>))

\* playback advances
Advance(c) ==
    /\ player[c].ready /\ player[c].playing
    /\ player[c].pos + PlayStep \in Positions
    /\ ClientStep(c, isRemoteAction[c], timers[c],
                  [player |-> [player[c] EXCEPT !.pos = @ + PlayStep], notifs |-> notifs[c]],
                  lastTimeRef[c], Stepped("advance", c, NoNotif, <<>>))

\* a state-change handler without the suppression guard
onYTStateChangeUnguarded(c, n) ==
    IF n.data = YT_PLAYING THEN <<Intent("play", RoomOf(c), player[c].pos)>>
    ELSE IF n.data = YT_PAUSED THEN <<Intent("pause", RoomOf(c), player[c].pos)>>
    ELSE <<>>

\* Room.jsx onYTStateChange
onYTStateChange(c, n) ==
    IF isRemoteAction[c] THEN <<>>
    ELSE IF n.data = YT_PLAYING THEN <<Intent("play", RoomOf(c), player[c].pos)>>
    ELSE IF n.data = YT_PAUSED THEN <<Intent("pause", RoomOf(c), player[c].pos)>>
    ELSE <<>>

\* TorrentPlayer.jsx handlePlay / handlePause / handleSeeked, with Room.jsx
\* onHTML5Play / onHTML5Pause / onHTML5Seeked
handlePlay(c, n) ==
    IF isRemoteAction[c] THEN <<>>
    ELSE <<Intent("play", RoomOf(c), player[c].pos)>>

handlePause(c, n) ==
    IF isRemoteAction[c] THEN <<>>
    ELSE IF ~n.ended THEN <<Intent("pause", RoomOf(c), player[c].pos)>>
    ELSE <<>>

handleSeeked(c, n) ==
    IF isRemoteAction[c] THEN <<>>
    ELSE <<Intent("seek", RoomOf(c), player[c].pos)>>

\* the player delivers its oldest notification to the handler registered for it
OnNotify(c) ==
    /\ notifs[c] # <<>>
    /\ LET n == Head(notifs[c])
           out == CASE n.type = "statechange" -> onYTStateChange(c, n)
                    [] n.type = "play" -> handlePlay(c, n)
                    [] n.type = "pause" -> handlePause(c, n)
                    [] OTHER -> handleSeeked(c, n)
       IN ClientStep(c, isRemoteAction[c], timers[c],
                     [player |-> player[c], notifs |-> Tail(notifs[c])],
                     lastTimeRef[c], Stepped("notify", c, n, out))

\* Math.abs
Abs(d) == IF d < 0 THEN 0 - d ELSE d

\* the jump, in ms, that the seek-detection poll takes for a seek
SeekThreshold == 2000

\* a poll that takes a jump of exactly the threshold for a seek
PollEmitsInclusive(c) ==
    IF Abs(player[c].pos - lastTimeRef[c]) >= SeekThreshold /\ ~isRemoteAction[c]
    THEN <<Intent("seek", RoomOf(c), player[c].pos)>>
    ELSE <<>>

\* the seek-detection poll of onYTReady: what one tick emits
PollEmits(c) ==
    LET t == player[c].pos
        diff == Abs(t - lastTimeRef[c])
    IN IF diff > SeekThreshold /\ ~isRemoteAction[c]
       THEN <<Intent("seek", RoomOf(c), t)>>
       ELSE <<>>

\* a tick that records the position only when the flag is not set
OnPollKeepsWhenSuppressed(c) ==
    /\ player[c].kind = "youtube" /\ player[c].ready
    /\ ClientStep(c, isRemoteAction[c], timers[c], Same(c),
                  IF isRemoteAction[c] THEN lastTimeRef[c] ELSE player[c].pos,
                  Stepped("poll", c, NoNotif, PollEmits(c)))

\* one tick of the setInterval started by onYTReady
OnPoll(c) ==
    /\ player[c].kind = "youtube" /\ player[c].ready
    /\ ClientStep(c, isRemoteAction[c], timers[c], Same(c), player[c].pos,
                 Stepped("poll", c, NoNotif, PollEmits(c)))

----------------------------------------------------------------------------

InitRooms ==
    /\ rooms = <<>>
    /\ conn = [s \in Sockets |-> "new"]
    /\ ioRooms = [s \in Sockets |-> {}]
    /\ sockRoomId = [s \in Sockets |-> Undefined]
    /\ sockUsername = [s \in Sockets |-> Undefined]
    /\ now = 0
    /\ last = Handled("none", Null, Null, Null, <<>>)

InitGateway ==
    /\ clientState = "none"
    /\ waiting = <<>>
    /\ torrents = <<>>
    /\ errListeners = {}
    /\ activeTorrent = NoTorrent
    /\ activeFile = NoFile
    /\ activeMagnet = Null
    /\ addError = Null
    /\ resp = Json("none", 0, Null)
    /\ replaced = NoReplaced

InitClients ==
    /\ isRemoteAction = [c \in Sockets |-> FALSE]
    /\ timers = [c \in Sockets |-> 0]
    /\ player = [c \in Sockets |-> NoPlayer]
    /\ lastTimeRef = [c \in Sockets |-> 0]
    /\ notifs = [c \in Sockets |-> <<>>]
    /\ syncRef = [c \in Sockets |-> NoSync]
    /\ sent = [c \in Sockets |-> Stepped("none", c, NoNotif, <<>>)]

InitNet ==
    /\ toServer = [c \in Sockets |-> <<>>]
    /\ toClient = [c \in Sockets |-> <<>>]
    /\ userActs = [n |-> 0, idle |-> TRUE]

\* no page has rendered a torrent player
InitTorrentPlayers ==
    /\ tplayer = [c \in Sockets |-> [magnetURI |-> Null, used |-> FALSE]]
    /\ gwReqs = <<>>

Init == InitRooms /\ InitGateway /\ InitClients /\ InitNet /\ InitTorrentPlayers

\* the room store with two connections
StoreSockets == {"s1", "s2"}
StoreRooms == {"rA"}

Next ==
    \/ \E s \in StoreSockets : Connect(s)
    \/ \E r \in RoomIds : PostRooms(r)
    \/ \E r \in RoomIds : GetRooms(r)
    \/ \E s \in StoreSockets, r \in StoreRooms : OnJoinRoom(s, r, NameOf(s))
    \/ \E s \in StoreSockets, r \in StoreRooms, p \in VideoPayloads : OnVideoChange(s, r, p)
    \/ \E s \in StoreSockets, r \in StoreRooms, t \in Times : OnPlay(s, r, t)
    \/ \E s \in StoreSockets, r \in StoreRooms, t \in Times : OnPause(s, r, t)
    \/ \E s \in StoreSockets, r \in StoreRooms, t \in Times : OnSeek(s, r, t)
    \/ \E s \in StoreSockets, r \in StoreRooms : OnSendMessage(s, r, "hi")
    \/ \E s \in StoreSockets : OnDisconnect(s)
    \/ Tick

Spec == Init /\ [][Next]_vars

\* the routing of events among three connections; s1 also joins a second room
RouteJoins(s) == IF s = "s1" THEN RoomIds ELSE {"rA"}
RouteTimes == {10500}
RoutePayloads == {p \in VideoPayloads : p.sourceType = "youtube"}

NextRoute ==
    \/ \E s \in Sockets : Connect(s)
    \/ \E r \in RoomIds : PostRooms(r)
    \/ \E s \in Sockets : \E r \in RouteJoins(s) : OnJoinRoom(s, r, NameOf(s))
    \/ \E s \in Sockets, r \in RoomIds, p \in RoutePayloads : OnVideoChange(s, r, p)
    \/ \E s \in Sockets, r \in RoomIds, t \in RouteTimes : OnPlay(s, r, t)
    \/ \E s \in Sockets, r \in RoomIds, t \in RouteTimes : OnPause(s, r, t)
    \/ \E s \in Sockets, r \in RoomIds, t \in RouteTimes : OnSeek(s, r, t)
    \/ \E s \in Sockets, r \in RoomIds : OnSendMessage(s, r, "hi")
    \/ \E s \in Sockets : OnDisconnect(s)

SpecRoute == Init /\ [][NextRoute]_vars

\* the torrent gateway
NextGateway ==
    \/ \E m \in Magnets \cup {Undefined} : PostAdd(m, MaxAdds)
    \/ ClientLoaded
    \/ \E id \in 1..MaxAdds : OnTorrent(id)
    \/ \E id \in 1..MaxAdds : Download(id)
    \/ \E id \in 1..MaxAdds : OnTorrentError(id)
    \/ \E id \in 1..MaxAdds : OnClientError(id)
    \/ \E id \in 1..MaxAdds : ListenerTimeout(id)
    \/ PostRemove
    \/ GetStatus
    \/ \E h \in GatewayHeaders : GetStream(h)

SpecGateway == Init /\ [][NextGateway]_vars

\* the stream endpoint on every file a transfer selects
MaxStreamAdds == 1

NextStream ==
    \/ \E m \in Magnets : PostAdd(m, MaxStreamAdds)
    \/ ClientLoaded
    \/ \E id \in 1..MaxStreamAdds : OnTorrent(id)
    \/ \E id \in 1..MaxStreamAdds : Download(id)
    \/ \E h \in RangeHeaders : GetStream(h)

SpecStream == Init /\ [][NextStream]_vars

\* one transfer started, streamed and removed, without swarm errors
MaxServeAdds == 1

NextServe ==
    \/ \E m \in Magnets : PostAdd(m, MaxServeAdds)
    \/ ClientLoaded
    \/ \E id \in 1..MaxServeAdds : OnTorrent(id)
    \/ \E id \in 1..MaxServeAdds : Download(id)
    \/ PostRemove
    \/ GetStatus
    \/ \E h \in GatewayHeaders : GetStream(h)
    \/ StreamError

SpecServe == Init /\ [][NextServe]_vars

\* a transfer replaced by another while older transfers may still be connecting
MaxReplaceAdds == 3

NextReplace ==
    \/ \E m \in Magnets : PostAdd(m, MaxReplaceAdds)
    \/ ClientLoaded
    \/ \E id \in 1..MaxReplaceAdds : OnTorrent(id)
    \/ \E id \in 1..MaxReplaceAdds : Download(id)
    \/ PostRemove
    \/ GetStatus

SpecReplace == Init /\ [][NextReplace]_vars

\* one client, with the remote commands of the other participants as inputs
Clients == {"s1"}
PlayerKinds == {"youtube", "video"}

NextClient ==
    \/ \E c \in Clients, k \in PlayerKinds : Mount(c, k)
    \/ \E c \in Clients, st \in SyncStates : OnSyncState(c, st)
    \/ \E c \in Clients : OnReady(c)
    \/ \E c \in Clients, t \in Positions : OnRemotePlay(c, t)
    \/ \E c \in Clients, t \in Positions : OnRemotePause(c, t)
    \/ \E c \in Clients, t \in Positions : OnRemoteSeek(c, t)
    \/ \E c \in Clients : OnSettle(c)
    \/ \E c \in Clients : UserPlay(c)
    \/ \E c \in Clients, e \in BOOLEAN : UserPause(c, e)
    \/ \E c \in Clients, t \in Positions : UserSeek(c, t)
    \/ \E c \in Clients : Advance(c)
    \/ \E c \in Clients : OnNotify(c)
    \/ \E c \in Clients : OnPoll(c)

SpecClient == Init /\ [][NextClient]_vars

\* one client applying remote commands, source changes included, and its settle
\* timers; a timer that was started fires
NextSettle ==
    \/ \E c \in Clients, k \in PlayerKinds : Mount(c, k)
    \/ \E c \in Clients : OnReady(c)
    \/ \E c \in Clients, t \in Positions : OnRemotePlay(c, t)
    \/ \E c \in Clients, t \in Positions : OnRemotePause(c, t)
    \/ \E c \in Clients, t \in Positions : OnRemoteSeek(c, t)
    \/ \E c \in Clients, p \in VideoPayloads : OnRemoteVideoChange(c, p)
    \/ \E c \in Clients : OnSettle(c)
    \/ \E c \in Clients : OnNotify(c)

SpecSettle ==
    Init /\ [][NextSettle]_vars /\ \A c \in Clients : WF_vars(OnSettle(c))

\* one client that only receives: remote commands, its timers, the player's
\* notifications and the poll; the user does not touch the player and the
\* position changes by remote commands only, so that every intent emitted is
\* caused by a remote command
NextEcho ==
    \/ \E c \in Clients, k \in PlayerKinds : Mount(c, k)
    \/ \E c \in Clients : OnReady(c)
    \/ \E c \in Clients, t \in Positions : OnRemotePlay(c, t)
    \/ \E c \in Clients, t \in Positions : OnRemotePause(c, t)
    \/ \E c \in Clients, t \in Positions : OnRemoteSeek(c, t)
    \/ \E c \in Clients, p \in VideoPayloads : OnRemoteVideoChange(c, p)
    \/ \E c \in Clients : OnSettle(c)
    \/ \E c \in Clients : OnNotify(c)
    \/ \E c \in Clients : OnPoll(c)

SpecEcho == Init /\ [][NextEcho]_vars

\* the pages that join late
Joiners == {"s1", "s2"}

\* clients that join late: the snapshot, the player becoming ready and playing
\* on, its notifications and the poll; a joiner of a room without a shared
\* source loads media itself; nobody uses the controls and no remote command
\* arrives
NextJoin ==
    \/ \E c \in Joiners, st \in SyncStates : OnSyncState(c, st)
    \/ \E c \in Joiners, k \in PlayerKinds : Mount(c, k)
    \/ \E c \in Joiners : OnReady(c)
    \/ \E c \in Joiners : Advance(c)
    \/ \E c \in Joiners : OnNotify(c)
    \/ \E c \in Joiners : OnPoll(c)

SpecJoin == Init /\ [][NextJoin]_vars

----------------------------------------------------------------------------
(* A session: two participants in room rA whose pages play the same direct  *)
(* URL, with the Socket.io connections between them and the server.  An     *)
(* intent a page emits is handled by the server later, and the event the     *)
(* server relays is handled by the receiving page later; each connection     *)
(* keeps the order of its messages.                                          *)

SessionClients == {"s1", "s2"}
SessionRoom == "rA"

\* how often the participants use the controls, and how many messages a
\* connection holds in one direction
MaxUserActs == 3
MaxInFlight == 1

\* both participants have joined, one of them has loaded the URL, and both
\* players are ready and paused at the start
InitSession ==
    /\ rooms = updateRoom(
                   joinRoom(joinRoom(<<>>, SessionRoom, "s1", NameOf("s1"), 0),
                            SessionRoom, "s2", NameOf("s2"), 0),
                   SessionRoom,
                   [sourceType |-> "url", videoId |-> Null, url |-> "urlA",
                    magnetURI |-> Null, currentTime |-> 0, isPlaying |-> FALSE], 0)
    /\ conn = [s \in Sockets |-> IF s \in SessionClients THEN "open" ELSE "new"]
    /\ ioRooms = [s \in Sockets |-> IF s \in SessionClients THEN {SessionRoom} ELSE {}]
    /\ sockRoomId = [s \in Sockets |-> IF s \in SessionClients THEN SessionRoom ELSE Undefined]
    /\ sockUsername = [s \in Sockets |-> IF s \in SessionClients THEN NameOf(s) ELSE Undefined]
    /\ now = 0
    /\ last = Handled("none", Null, Null, Null, <<>>)
    /\ InitGateway
    /\ isRemoteAction = [c \in Sockets |-> FALSE]
    /\ timers = [c \in Sockets |-> 0]
    /\ player = [c \in Sockets |->
                    IF c \in SessionClients
                    THEN [NoPlayer EXCEPT !.kind = "video", !.src = "urlA", !.ready = TRUE]
                    ELSE NoPlayer]
    /\ lastTimeRef = [c \in Sockets |-> 0]
    /\ notifs = [c \in Sockets |-> <<>>]
    /\ syncRef = [c \in Sockets |->
                    IF c \in SessionClients
                    THEN SyncState("youtube", Null, Null, Null, 0, FALSE)
                    ELSE NoSync]
    /\ sent = [c \in Sockets |-> Stepped("none", c, NoNotif, <<>>)]
    /\ InitNet
    /\ InitTorrentPlayers

\* a step of page c: its refs and player change, and socket.emit puts the
\* intents of the step on the connection to the server (the connections are
\* the record of what was emitted: sent and last are not kept here)
SessionStep(c, flag, tm, pq, out) ==
    /\ isRemoteAction' = [isRemoteAction EXCEPT ![c] = flag]
    /\ timers' = [timers EXCEPT ![c] = tm]
    /\ player' = [player EXCEPT ![c] = pq.player]
    /\ notifs' = [notifs EXCEPT ![c] = pq.notifs]
    /\ toServer' = [toServer EXCEPT ![c] = @ \o out]
    /\ UNCHANGED <<lastTimeRef, syncRef, sent, roomVars, gwVars, tpVars>>

\* page c is applying no remote command
Idle(c) == ~isRemoteAction[c] /\ timers[c] = 0

Used(c) == [n |-> userActs.n + 1, idle |-> userActs.idle /\ Idle(c)]

\* the participant presses play / pause
SessionUserPlay(c) ==
    /\ userActs.n < MaxUserActs
    /\ player[c].ready /\ ~player[c].playing
    /\ Len(notifs[c]) < MaxNotifs
    /\ SessionStep(c, isRemoteAction[c], timers[c], Started(player[c], notifs[c]), <<>>)
    /\ userActs' = Used(c)
    /\ UNCHANGED toClient

SessionUserPause(c) ==
    /\ userActs.n < MaxUserActs
    /\ player[c].ready /\ player[c].playing
    /\ Len(notifs[c]) < MaxNotifs
    /\ SessionStep(c, isRemoteAction[c], timers[c], Paused(player[c], notifs[c], FALSE),
                   <<>>)
    /\ userActs' = Used(c)
    /\ UNCHANGED toClient

\* what the handler registered for notification n emits
HandlerOut(c, n) ==
    CASE n.type = "statechange" -> onYTStateChange(c, n)
      [] n.type = "play" -> handlePlay(c, n)
      [] n.type = "pause" -> handlePause(c, n)
      [] OTHER -> handleSeeked(c, n)

\* the player delivers its oldest notification; the handler emits to the server
SessionNotify(c) ==
    /\ notifs[c] # <<>>
    /\ LET n == Head(notifs[c])
           out == HandlerOut(c, n)
       IN /\ Len(toServer[c]) + Len(out) <= MaxInFlight
          /\ SessionStep(c, isRemoteAction[c], timers[c],
                         [player |-> player[c], notifs |-> Tail(notifs[c])], out)
    /\ UNCHANGED <<toClient, userActs>>

\* index.js play / pause / seek: the server handles the oldest intent of c
SessionServe(c) ==
    /\ toServer[c] # <<>>
    /\ conn[c] = "open"
    /\ LET m == Head(toServer[c])
           updates == CASE m.event = "play" ->
                             [currentTime |-> m.currentTime, isPlaying |-> TRUE]
                        [] m.event = "pause" ->
                             [currentTime |-> m.currentTime, isPlaying |-> FALSE]
                        [] OTHER -> [currentTime |-> m.currentTime]
           to == SocketTo(c, m.roomId)
           payload == [currentTime |-> m.currentTime]
       IN /\ \A r \in to : Len(toClient[r]) < MaxInFlight
          /\ rooms' = updateRoom(rooms, m.roomId, updates, now)
          /\ toClient' = [r \in Sockets |->
                             IF r \in to
                             THEN Append(toClient[r], [event |-> m.event, payload |-> payload])
                             ELSE toClient[r]]
    /\ toServer' = [toServer EXCEPT ![c] = Tail(@)]
    /\ UNCHANGED <<conn, ioRooms, sockRoomId, sockUsername, now, last>>
    /\ UNCHANGED <<gwVars, clVars, userActs, tpVars>>

\* Room.jsx socket.on("play") / ("pause") / ("seek"): page c handles the oldest
\* event relayed to it
SessionReceive(c) ==
    /\ toClient[c] # <<>>
    /\ timers[c] < MaxTimers
    /\ LET m == Head(toClient[c])
           a == seekTo(player[c], notifs[c], m.payload.currentTime)
           b == CASE m.event = "play" -> playPlayer(a.player, a.notifs)
                  [] m.event = "pause" -> pausePlayer(a.player, a.notifs)
                  [] OTHER -> a
       IN /\ Len(b.notifs) <= MaxNotifs
          /\ SessionStep(c, TRUE, timers[c] + 1, b, <<>>)
    /\ toClient' = [toClient EXCEPT ![c] = Tail(@)]
    /\ UNCHANGED userActs

\* the setTimeout callback of a remote command
SessionSettle(c) ==
    /\ timers[c] > 0
    /\ SessionStep(c, FALSE, timers[c] - 1, Same(c), <<>>)
    /\ UNCHANGED <<toClient, userActs>>

NextSession ==
    \/ \E c \in SessionClients : SessionUserPlay(c)
    \/ \E c \in SessionClients : SessionUserPause(c)
    \/ \E c \in SessionClients : SessionNotify(c)
    \/ \E c \in SessionClients : SessionServe(c)
    \/ \E c \in SessionClients : SessionReceive(c)
    \/ \E c \in SessionClients : SessionSettle(c)

SpecSession == InitSession /\ [][NextSession]_vars

----------------------------------------------------------------------------
(* Properties *)

\* the members of a room: the open connections registered in its users Map
Members(roomId) ==
    IF roomExists(rooms, roomId)
    THEN {s \in Sockets : s \in UserIds(rooms[roomId].users) /\ conn[s] = "open"}
    ELSE {}

PlaybackOps == {"play", "pause", "seek", "video-change"}

\* C1: a play, pause, seek or video-change intent sent by a member of the room is
\* relayed as one event of the same name to every other member of the room and
\* not to the sender: with N members exactly N-1 connections receive it.
C1_RelayToOthers ==
    (last.op \in PlaybackOps /\ last.sock \in Members(last.roomId)) =>
        /\ Len(last.out) = 1
        /\ last.out[1].event = last.op
        /\ last.out[1].to = Members(last.roomId) \ {last.sock}
        /\ last.sock \notin last.out[1].to
        /\ Cardinality(last.out[1].to) = Cardinality(Members(last.roomId)) - 1

\* a play intent in a room of three members has reached the two others
C1_Witness ==
    /\ last.op = "play"
    /\ last.sock \in Members(last.roomId)
    /\ Cardinality(Members(last.roomId)) = 3
    /\ Cardinality(last.out[1].to) = 2

\* C2: a player notification (YouTube state change to playing or paused, <video>
\* play, pause or seeked) delivered while the suppression flag is true emits no
\* intent; so the "playing" notification that follows a remote play command emits
\* no play intent while the flag is set.
C2_SuppressedNotificationsEmitNothing ==
    \A c \in Clients :
        (sent[c].step = "notify" /\ sent[c].flag) => sent[c].out = <<>>

\* the YouTube player's "playing" notification was delivered while the settle
\* timer of a remote command was pending, and nothing was emitted
C2_Witness ==
    \E c \in Clients :
        /\ sent[c].step = "notify"
        /\ sent[c].flag
        /\ sent[c].notif = PlayNotif("youtube")
        /\ player[c].playing
        /\ timers[c] > 0
        /\ sent[c].out = <<>>

\* C3: after a video-change intent for an existing room the room holds the new
\* source together with currentTime 0 and isPlaying false, and the snapshot of the
\* room shows the same: the source, the position and the flag change in one step.
C3_SourceChangeResets ==
    (last.op = "video-change" /\ last.existed) =>
        /\ roomExists(rooms, last.roomId)
        /\ LET room == rooms[last.roomId]
               snap == getRoomState(rooms, last.roomId, now)
               p == last.arg
           IN /\ room.sourceType = Or(p.sourceType, "youtube")
              /\ room.videoId = Or(p.videoId, Null)
              /\ room.url = Or(p.url, Null)
              /\ room.magnetURI = Or(p.magnetURI, Null)
              /\ room.currentTime = 0
              /\ room.isPlaying = FALSE
              /\ snap.sourceType = room.sourceType
              /\ snap.videoId = room.videoId
              /\ snap.url = room.url
              /\ snap.magnetURI = room.magnetURI
              /\ snap.currentTime = 0
              /\ snap.isPlaying = FALSE

\* a room took a swarm source five seconds after it was created, and time has not
\* moved since
C3_Witness ==
    /\ last.op = "video-change"
    /\ last.existed
    /\ last.arg.sourceType = "torrent"
    /\ last.at = 5000
    /\ now = 5000
    /\ rooms[last.roomId].magnetURI = "magA"
    /\ rooms[last.roomId].lastUpdate = 5000

\* the snapshot a join or a fetch of the room has produced
Snapshots ==
    IF last.op = "join-room" THEN {last.out[1].payload}
    ELSE IF last.op = "get-rooms" /\ last.out[1].payload.found THEN {last.out[1].payload}
    ELSE {}

\* C4: the currentTime of a snapshot taken at time t is the stored currentTime plus
\* the time elapsed since lastUpdate when the room is playing, and the stored
\* currentTime exactly when it is not.
C4_SnapshotDrift ==
    \A snap \in Snapshots :
        LET room == rooms[last.roomId]
        IN /\ snap.isPlaying = room.isPlaying
           /\ room.isPlaying => snap.currentTime = room.currentTime + (last.at - room.lastUpdate)
           /\ ~room.isPlaying => snap.currentTime = room.currentTime

\* a joiner gets 15.5 s for a room that was set playing at 10.5 s five seconds ago
C4_Witness ==
    /\ last.op = "join-room"
    /\ rooms[last.roomId].isPlaying
    /\ rooms[last.roomId].currentTime = 10500
    /\ last.at - rooms[last.roomId].lastUpdate = 5000
    /\ last.out[1].payload.currentTime = 15500

\* C5: a room whose participants have all left is not in the registry: every room
\* of the registry holds the placeholder or a connection that is still open, so
\* that a later join of its id starts from the default state.
C5_NoRoomOutlivesItsParticipants ==
    \A r \in DOMAIN rooms :
        \E u \in UserIds(rooms[r].users) : u = Placeholder \/ conn[u] = "open"

\* C6: a tick of the seek-detection poll emits a seek intent exactly when the
\* player's position is more than 2 s away from the last observed position and the
\* suppression flag is false; the intent carries the position; and the tick
\* records the position, so that the next tick at the same position emits nothing.
C6_SeekPoll ==
    \A c \in Clients :
        sent[c].step = "poll" =>
            /\ sent[c].out =
                  IF Abs(sent[c].pos - sent[c].lastTime) > 2000 /\ ~sent[c].flag
                  THEN <<Intent("seek", RoomOf(c), sent[c].pos)>>
                  ELSE <<>>
            /\ lastTimeRef[c] = sent[c].pos
            /\ (sent[c].lastTime = sent[c].pos => sent[c].out = <<>>)

\* a tick saw the position go from 20 s to 50 s and emitted the seek to 50 s
C6_Witness ==
    \E c \in Clients :
        /\ sent[c].step = "poll"
        /\ ~sent[c].flag
        /\ sent[c].lastTime = 20000
        /\ sent[c].pos = 50000
        /\ sent[c].out = <<Intent("seek", RoomOf(c), 50000)>>

\* the text "bytes s-e/T"
ContentRangeText(s, e, T) ==
    <<"b", "y", "t", "e", "s", " ">> \o NatToString(s) \o <<"-">> \o NatToString(e)
        \o <<"/">> \o NatToString(T)

\* C7: with a selected file of length T, a stream request with Range: bytes=s-e,
\* 0 <= s <= e <= T-1, gets status 206, Content-Range "bytes s-e/T", Content-Length
\* e-s+1 and Accept-Ranges bytes; without the end, e is T-1; without a Range header
\* the request gets status 200 and Content-Length T.
C7_RangeStreaming ==
    (resp.op = "stream" /\ resp.status # 404) =>
        LET T == resp.body.read.file.length
        IN /\ \A s \in 0..(T - 1) : \A e \in s..(T - 1) :
                 resp.req = Header(RangeOf(s, e)) =>
                     /\ resp.status = 206
                     /\ resp.body.ContentRange = ContentRangeText(s, e, T)
                     /\ resp.body.ContentLength = [nan |-> FALSE, val |-> e - s + 1]
                     /\ resp.body.AcceptRanges = "bytes"
           /\ \A s \in 0..(T - 1) :
                 resp.req = Header(RangeFrom(s)) =>
                     /\ resp.status = 206
                     /\ resp.body.ContentRange = ContentRangeText(s, T - 1, T)
                     /\ resp.body.ContentLength = [nan |-> FALSE, val |-> T - s]
                     /\ resp.body.AcceptRanges = "bytes"
           /\ resp.req = NoHeader =>
                 /\ resp.status = 200
                 /\ resp.body.ContentLength = [nan |-> FALSE, val |-> T]

\* bytes 9 to 11 of the 12 bytes of movie.mp4 were requested and served
C7_Witness ==
    /\ resp.op = "stream"
    /\ resp.req = Header(<<"b", "y", "t", "e", "s", "=", "9", "-", "1", "1">>)
    /\ resp.status = 206
    /\ resp.body.read.file.length = 12
    /\ resp.body.ContentRange =
          <<"b", "y", "t", "e", "s", " ", "9", "-", "1", "1", "/", "1", "2">>
    /\ resp.body.ContentLength = [nan |-> FALSE, val |-> 3]

\* C8: once an add for locator B has torn down the downloading transfer of another
\* locator A, A's torrent is gone from the swarm client and the status is that of
\* B only: connecting, or the torrent of B.
C8_StatusOnlyOfNewLocator ==
    ( /\ replaced.id # NoTorrent
      /\ replaced.status = "downloading"
      /\ torrents[replaced.id].magnet # activeMagnet ) =>
        /\ replaced.id \notin ClientTorrents(torrents)
        /\ addError = Null =>
              \/ Status(G).status = "connecting"
              \/ /\ activeTorrent # NoTorrent
                 /\ torrents[activeTorrent].magnet = activeMagnet

\* C9: the swarm client never holds more than one torrent.
C9_AtMostOneTorrent == Cardinality(ClientTorrents(torrents)) <= 1

\* C10: a chat message of a member reaches every member of the room, the sender
\* included, and the participant list broadcast by a join or by a leave reaches
\* every current member, the joiner included.
C10_ChatAndListReachAll ==
    /\ (last.op = "send-message" /\ last.sock \in Members(last.roomId)) =>
          /\ Len(last.out) = 1
          /\ last.out[1].event = "receive-message"
          /\ last.out[1].to = Members(last.roomId)
          /\ last.sock \in last.out[1].to
    /\ last.op = "join-room" =>
          /\ last.out[3].event = "users-list"
          /\ last.out[3].to = Members(last.roomId)
          /\ last.sock \in last.out[3].to
    /\ (last.op = "disconnect" /\ Members(last.roomId) # {}) =>
          /\ Len(last.out) = 2
          /\ last.out[2].event = "users-list"
          /\ last.out[2].to = Members(last.roomId)

\* a chat message in a room of three members has reached all three
C10_Witness ==
    /\ last.op = "send-message"
    /\ last.sock \in Members(last.roomId)
    /\ Cardinality(Members(last.roomId)) = 3
    /\ Cardinality(last.out[1].to) = 3

\* C11 (as the code has it): a join produces one user-joined notice, which
\* carries the joiner's name and reaches every other member of the room and not
\* the joining connection itself.
C11_JoinNoticeToOthers ==
    last.op = "join-room" =>
        /\ Len(SelectSeq(last.out, LAMBDA e : e.event = "user-joined")) = 1
        /\ last.out[2].event = "user-joined"
        /\ last.out[2].payload.username = sockUsername[last.sock]
        /\ last.out[2].to = Members(last.roomId) \ {last.sock}
        /\ last.sock \notin last.out[2].to

\* C11 (as stated): the join notice reaches everyone in the room, the joining
\* connection included.
C11_JoinNoticeReachesJoiner ==
    last.op = "join-room" =>
        /\ last.out[2].event = "user-joined"
        /\ last.out[2].to = Members(last.roomId)
        /\ last.sock \in last.out[2].to

\* the third connection joined a room of two, and the two were told
C11_Witness ==
    /\ last.op = "join-room"
    /\ Cardinality(Members(last.roomId)) = 3
    /\ last.out[2].event = "user-joined"
    /\ Cardinality(last.out[2].to) = 2
    /\ last.sock \notin last.out[2].to

\* C12: a join-room intent produces exactly one sync-state, addressed to the
\* joining connection alone, and no other operation emits a sync-state.
C12_SnapshotToJoinerOnly ==
    LET snaps == SelectSeq(last.out, LAMBDA e : e.event = "sync-state")
    IN /\ last.op = "join-room" =>
            /\ Len(snaps) = 1
            /\ snaps[1].to = {last.sock}
            /\ snaps[1].to \cap (Members(last.roomId) \ {last.sock}) = {}
       /\ last.op # "join-room" => snaps = <<>>

\* the third connection joined a room of two and it alone got the snapshot
C12_Witness ==
    /\ last.op = "join-room"
    /\ Cardinality(Members(last.roomId)) = 3
    /\ last.out[1].event = "sync-state"
    /\ last.out[1].to = {last.sock}
    /\ last.out[1].payload.userCount = 3

\* the transfer state the requests share
transferState == <<torrents, activeTorrent, activeFile, activeMagnet, addError>>

\* C13: an add request for the locator of the transfer that is already connecting,
\* downloading, ready, without video or failed creates no torrent instance and
\* leaves the locator, the torrent, the selected file and the error as they were.
C13_SameLocatorStartChangesNothing ==
    [][ \A m \in Magnets :
            (activeMagnet = m /\ Status(G).status # "idle" /\ PostAdd(m, MaxAdds)) =>
                UNCHANGED <<transferState, errListeners, waiting>> ]_vars

\* a step in which a start request is processed: the handler itself, or the
\* continuation of the handlers that waited for the swarm library
StartStep == (\E m \in Magnets : PostAdd(m, MaxAdds)) \/ ClientLoaded

\* C14: a remove leaves the status idle with no file selected, whatever the state
\* was; from then on the status stays idle with no file until a start request is
\* processed, also when the metadata callback of the removed transfer runs; and a
\* remove in status idle changes nothing of the transfer state.
C14_RemovedStaysIdle ==
    [][ /\ PostRemove => (Status(G).status = "idle" /\ activeFile = NoFile)'
        /\ (Status(G).status = "idle" /\ PostRemove) => UNCHANGED transferState
        /\ (Status(G).status = "idle" /\ ~StartStep) =>
               (Status(G).status = "idle" /\ activeFile = NoFile)' ]_vars

\* the Range header of the answered request asks for bytes outside 0..T-1, or for
\* a start that is not a number
Unsatisfiable(req, T) ==
    \/ \E s \in RangeNums, e \in RangeNums :
          req = Header(RangeOf(s, e)) /\ (s >= T \/ e >= T \/ s > e)
    \/ \E s \in RangeNums : req = Header(RangeFrom(s)) /\ s >= T
    \/ req = Header(BytesEq \o <<"x", "-", "9">>)

\* C15: a stream request for the selected file whose range is outside 0..T-1
\* (start >= T, end >= T, start > end, or a start that does not parse) is
\* answered 416 "range not satisfiable", never 206.
C15_UnsatisfiableRangeRejected ==
    ( /\ resp.op = "stream"
      /\ resp.status # 404
      /\ activeFile # NoFile
      /\ Unsatisfiable(resp.req, activeFile.length) ) =>
        /\ resp.status = 416
        /\ resp.status # 206

\* the status body says the selected file is ready to stream
IsReady ==
    /\ addError = Null
    /\ activeTorrent # NoTorrent
    /\ Status(G).ready

\* C16: a stream request is answered 200 or 206 only if a file is selected and the
\* status is ready at that moment; while the transfer is connecting, or
\* downloading below the readiness threshold, it is not served.
C16_ServedOnlyWhenReady ==
    [][ ((\E h \in RangeHeaders : GetStream(h)) /\ resp'.status \in {200, 206}) =>
            (activeFile # NoFile /\ IsReady) ]_vars

\* C17: a stream request made while no file is selected (the transfer is idle,
\* connecting, without video, or removed) is answered 404 with a JSON error and
\* no read stream of any file is opened for it.
C17_NoFileNotFound ==
    [][ ((\E h \in GatewayHeaders : GetStream(h)) /\ activeFile = NoFile) =>
            /\ resp'.op = "stream"
            /\ resp'.status = 404
            /\ DOMAIN resp'.body = {"error"} ]_vars

\* a stream request with a Range header was answered 404 while the transfer's
\* metadata is resolved and holds no video file
C17_Witness ==
    /\ resp.op = "stream"
    /\ resp.req.present
    /\ resp.status = 404
    /\ activeFile = NoFile
    /\ Status(G).status = "no-video"

\* the moves of the reported status that need no request: metadata resolved with
\* or without a video, a fatal error before the transfer is ready, and the
\* download reaching the streaming threshold ("streaming" is the ready status)
StatusMoves ==
    { <<"connecting", "downloading">>, <<"connecting", "no-video">>,
      <<"connecting", "error">>, <<"downloading", "error">>,
      <<"downloading", "streaming">> }

\* C18: in a step that processes no start and no remove request the reported
\* status stays or makes one of the moves above; so idle stays idle, error stays
\* error with its detail, no-video stays no-video and ready stays ready.
C18_StatusMachine ==
    [][ ~(StartStep \/ PostRemove) =>
            /\ \/ Status(G)'.status = Status(G).status
               \/ <<Status(G).status, Status(G)'.status>> \in StatusMoves
            /\ Status(G).status = "error" => Status(G)' = Status(G) ]_vars

C20_StreamLeavesTransferAlone ==
    [][ ((\E h \in GatewayHeaders : GetStream(h)) \/ StreamError) =>
            /\ UNCHANGED <<transferState, errListeners, clientState, waiting>>
            /\ Status(G)' = Status(G)
            /\ resp'.op \in {"stream", "stream-error"} ]_vars

\* the read stream of a served request has failed while the transfer is
\* downloading, and no error is recorded on the transfer
C20_Witness ==
    /\ resp.op = "stream-error"
    /\ resp.status = 206
    /\ addError = Null
    /\ activeFile # NoFile
    /\ Status(G).status = "downloading"

\* the fields of a room other than its users
RoomState(room) ==
    [sourceType |-> room.sourceType, videoId |-> room.videoId, url |-> room.url,
     magnetURI |-> room.magnetURI, currentTime |-> room.currentTime,
     isPlaying |-> room.isPlaying, lastUpdate |-> room.lastUpdate]

\* the participants of a users Map: its entries without the placeholder
Participants(users) == SelectSeq(users, LAMBDA u : u.socketId # Placeholder)

\* C21: a join of an absent room id creates the room with the default state
\* (youtube source without id, currentTime 0, not playing) and the joiner as its
\* participant; a join of an existing room adds or overwrites the joiner's entry
\* and leaves source, currentTime, isPlaying and lastUpdate as they were; the
\* snapshot sent to the joiner lists the joiner.
C21_JoinCreatesOrOnlyRegisters ==
    [][ \A s \in Sockets, r \in RoomIds :
            OnJoinRoom(s, r, NameOf(s)) =>
                /\ roomExists(rooms', r)
                /\ \E i \in 1..Len(last'.out[1].payload.users) :
                       last'.out[1].payload.users[i].socketId = s
                /\ IF ~roomExists(rooms, r)
                   THEN /\ RoomState(rooms'[r]) = RoomState(NewRoom(now))
                        /\ rooms'[r].users = <<[socketId |-> s, username |-> Or(NameOf(s), "Guest")]>>
                   ELSE /\ RoomState(rooms'[r]) = RoomState(rooms[r])
                        /\ Participants(rooms'[r].users) =
                              MapSet(Participants(rooms[r].users), s, Or(NameOf(s), "Guest")) ]_vars

\* C22: leaveRoom for an absent room or for a connection that is not in the room
\* returns the registry as it is, and a play, pause, seek or video-change intent
\* for an absent room leaves the registry as it is: no room is created, deleted
\* or modified.
C22_AbsentTargetsAreNoOps ==
    /\ [](\A r \in RoomIds, u \in Sockets \cup {Placeholder} :
             (~roomExists(rooms, r) \/ u \notin UserIds(rooms[r].users)) =>
                 leaveRoom(rooms, r, u).rooms = rooms)
    /\ [][ (last' # last /\ last'.op \in PlaybackOps /\ ~roomExists(rooms, last'.roomId)) =>
              (rooms' = rooms /\ ~roomExists(rooms', last'.roomId)) ]_vars

\* a seek for room rA was handled while only room rB existed, and rB is all there
\* is in the registry afterwards
C22_Witness ==
    /\ last.op = "seek"
    /\ last.roomId = "rA"
    /\ ~last.existed
    /\ DOMAIN rooms = {"rB"}

\* C23: a play intent for an existing room sets currentTime to the payload and
\* isPlaying to true, a pause intent sets currentTime to the payload and
\* isPlaying to false, a seek intent sets currentTime to the payload and keeps
\* isPlaying; each leaves the source and the users of the room, and every other
\* room, as they were.
C23_PlaybackChangesOnlyItsFields ==
    [][ (last' # last /\ last'.op \in {"play", "pause", "seek"}
                     /\ roomExists(rooms, last'.roomId)) =>
            LET r == last'.roomId
            IN /\ DOMAIN rooms' = DOMAIN rooms
               /\ \A o \in DOMAIN rooms \ {r} : rooms'[o] = rooms[o]
               /\ rooms'[r].currentTime = last'.arg
               /\ rooms'[r].isPlaying =
                     CASE last'.op = "play" -> TRUE
                       [] last'.op = "pause" -> FALSE
                       [] OTHER -> rooms[r].isPlaying
               /\ rooms'[r].sourceType = rooms[r].sourceType
               /\ rooms'[r].videoId = rooms[r].videoId
               /\ rooms'[r].url = rooms[r].url
               /\ rooms'[r].magnetURI = rooms[r].magnetURI
               /\ rooms'[r].users = rooms[r].users ]_vars

\* a seek to 10.5 s in a playing room that shows a url source, while a second
\* room exists: the room still plays
C23_Witness ==
    /\ last.op = "seek"
    /\ last.existed
    /\ last.arg = 10500
    /\ rooms[last.roomId].isPlaying
    /\ rooms[last.roomId].currentTime = 10500
    /\ rooms[last.roomId].sourceType = "url"
    /\ Cardinality(DOMAIN rooms) = 2

C25_ParticipantsOpenAndInOneRoom ==
    \A r \in DOMAIN rooms :
        \A u \in UserIds(rooms[r].users) \ {Placeholder} :
            /\ conn[u] = "open"
            /\ \A o \in DOMAIN rooms \ {r} : u \notin UserIds(rooms[o].users)

\* C26: every room of the registry has at least one entry in its users Map, after
\* every step of the server: the step that removes the last entry of a room
\* deletes the room; and a room id that is not in the registry comes into it only
\* by a join-room for that id or by the creation of that room.
C26_NoEmptyRoom ==
    /\ [](\A r \in DOMAIN rooms :
             /\ Len(rooms[r].users) > 0
             /\ \A u \in UserIds(rooms[r].users) :
                   leaveRoom(rooms, r, u).remaining = 0 =>
                       ~roomExists(leaveRoom(rooms, r, u).rooms, r))
    /\ [][ \A r \in RoomIds :
              (~roomExists(rooms, r) /\ roomExists(rooms', r)) =>
                  (last'.op \in {"join-room", "post-rooms"} /\ last'.roomId = r) ]_vars

\* the disconnect of the only participant of a room has deleted the room
C26_Witness ==
    /\ last.op = "disconnect"
    /\ last.existed
    /\ last.out = <<>>
    /\ ~roomExists(rooms, last.roomId)

\* the payload field that belongs to a source type ("local" has none)
PayloadOf(sourceType) ==
    CASE sourceType = "youtube" -> {"videoId"}
      [] sourceType = "url" -> {"url"}
      [] sourceType = "torrent" -> {"magnetURI"}
      [] OTHER -> {}

\* the payload fields of a room or of a snapshot that are set
PayloadsSet(room) == {f \in {"videoId", "url", "magnetURI"} : room[f] # Null}

ListInforms(e, r) ==
    /\ e.event = "users-list"
    /\ e.to = Members(r)
    /\ e.payload = Participants(rooms[r].users)
    /\ {e.payload[i].socketId : i \in 1..Len(e.payload)} = Members(r)

\* C28: a join, and a disconnect after which the room still exists, send every
\* member of the room a participant list that equals the participants of the
\* room in the store and names exactly the connections that are members now.
C28_ListNamesCurrentMembers ==
    /\ last.op = "join-room" => ListInforms(last.out[3], last.roomId)
    /\ (last.op = "disconnect" /\ roomExists(rooms, last.roomId)) =>
          /\ Len(last.out) = 2
          /\ ListInforms(last.out[2], last.roomId)

\* the connection ids of a participant list, in its order
IdsOf(list) == [i \in 1..Len(list) |-> list[i].socketId]

\* C29: getUsersList never names a connection twice, and whenever the list of a
\* room changes from one step to the next, the connections that stay in a room keep their relative order, a
\* connection that comes in is put after all of them, a repeated join of a
\* registered connection leaves the order as it is, and a disconnect takes out
\* the entry of the leaving connection only.
C29_ListOrderStable ==
    [][ \A r \in DOMAIN rooms \cap DOMAIN rooms' :
          getUsersList(rooms', r) # getUsersList(rooms, r) =>
            LET old == IdsOf(getUsersList(rooms, r))
                new == IdsOf(getUsersList(rooms', r))
                was == {old[i] : i \in 1..Len(old)}
                is == {new[i] : i \in 1..Len(new)}
                stay == SelectSeq(new, LAMBDA x : x \in was)
            IN /\ Cardinality(is) = Len(new)
               /\ stay = SelectSeq(old, LAMBDA x : x \in is)
               /\ new = stay \o SelectSeq(new, LAMBDA x : x \notin was)
               /\ (last'.op = "join-room" /\ last'.sock \in was) => new = old
               /\ (last' # last /\ last'.op = "disconnect" /\ last'.roomId = r) =>
                     new = SelectSeq(old, LAMBDA x : x # last'.sock) ]_vars

\* the connection that joined first has joined the room again and is still the
\* first of three in the list
C29_Witness ==
    /\ last.op = "join-room"
    /\ Len(getUsersList(rooms, last.roomId)) = 3
    /\ getUsersList(rooms, last.roomId)[1].socketId = last.sock
    /\ last.out[3].payload[1].socketId = last.sock

\* C30: while the settle timer of a remote command is pending on a client, the
\* suppression flag is true, also after the timer of an earlier command has
\* fired; so a player notification delivered, or a poll tick run, inside the
\* window of the newest command emits no intent.
C30_FlagHeldWhileATimerIsPending ==
    \A c \in Clients :
        timers[c] > 0 =>
            /\ isRemoteAction[c]
            /\ sent[c].step \in {"notify", "poll"} => sent[c].out = <<>>

\* C31: every tick of the seek-detection poll sets the last observed position to
\* the player's position, with the suppression flag set or not and with an intent
\* emitted or not, and nothing else writes it; so a tick emits a seek intent only
\* for a position more than 2 s away from the one the tick before it observed,
\* and a jump that a suppressed tick observed is not emitted by the ticks after it.
C31_EveryTickRecordsThePosition ==
    /\ [](\A c \in Clients :
             sent[c].step = "poll" =>
                 /\ lastTimeRef[c] = sent[c].pos
                 /\ lastTimeRef[c] = player[c].pos
                 /\ (sent[c].flag => sent[c].out = <<>>))
    /\ [][\A c \in Clients :
             /\ lastTimeRef'[c] # lastTimeRef[c] => sent'[c].step = "poll"
             /\ (sent[c].step = "poll" /\ sent'[c].step = "poll") =>
                    /\ sent'[c].lastTime = sent[c].pos
                    /\ (sent'[c].out # <<>> =>
                            Abs(sent'[c].pos - sent[c].pos) > SeekThreshold)
             /\ (sent'[c].step = "poll" /\ sent'[c].out # <<>>) =>
                    Abs(player[c].pos - lastTimeRef[c]) > SeekThreshold]_vars

\* a tick saw the position go from 20 s to 50 s while the flag was set: it
\* emitted nothing and recorded 50 s
C31_Witness ==
    \E c \in Clients :
        /\ sent[c].step = "poll"
        /\ sent[c].flag
        /\ sent[c].lastTime = 20000
        /\ sent[c].pos = 50000
        /\ sent[c].out = <<>>
        /\ lastTimeRef[c] = 50000

\* the source a snapshot names for the player (none in local-file mode, where
\* each participant supplies the file)
SourceOf(state) ==
    Or(state.videoId, Or(state.url, state.magnetURI))

\* a snapshot with a media source for player pl: a video id, a URL or a magnet
\* link, or the local-file kind when pl is the <video> of the file chosen
HasSource(state, pl) ==
    /\ state # NoSync
    /\ \/ SourceOf(state) \notin Falsy
       \/ state.sourceType = "local" /\ pl.kind = "video"

\* C32: on a late join with a media source in the snapshot, the player is the one
\* for that source and, at the step in which it becomes ready, it is positioned at
\* the snapshot's currentTime and is playing exactly if the snapshot's isPlaying
\* is true (for the local-file kind the player is the <video> of the file the
\* participant chose); with no source in the snapshot, or no snapshot, the step
\* neither seeks nor starts the player.
C32_LateJoinAppliesSnapshot ==
    /\ [](\A c \in Clients :
             (sent[c].step = "sync-state" /\ SourceOf(syncRef[c]) \notin Falsy) =>
                 /\ player[c].kind \in PlayerKinds
                 /\ player[c].src = SourceOf(syncRef[c])
                 /\ (player[c].kind = "youtube") = (syncRef[c].videoId \notin Falsy)
                 /\ ~player[c].ready /\ ~player[c].playing)
    /\ [][\A c \in Clients :
             (player'[c].ready /\ ~player[c].ready) =>
                 IF HasSource(syncRef[c], player[c])
                 THEN /\ player'[c].pos = syncRef[c].currentTime
                      /\ player'[c].playing = syncRef[c].isPlaying
                      /\ player'[c].src = player[c].src
                 ELSE /\ player'[c] = [player[c] EXCEPT !.ready = TRUE]
                      /\ notifs'[c] = notifs[c]]_vars

\* the YouTube player of a late joiner became ready at 20 s and playing
C32_Witness ==
    \E c \in Clients :
        /\ sent[c].step = "ready"
        /\ syncRef[c] = SyncState("youtube", "vidA", Null, Null, 20000, TRUE)
        /\ player[c].kind = "youtube" /\ player[c].src = "vidA"
        /\ player[c].ready /\ player[c].playing
        /\ player[c].pos = 20000

\* the player of media loaded after a snapshot without a source became ready
\* where it was, not playing
C32_WitnessNoSource ==
    \E c \in Clients :
        /\ sent[c].step = "ready"
        /\ syncRef[c] = SyncState("youtube", Null, Null, Null, 0, FALSE)
        /\ player[c].ready /\ ~player[c].playing
        /\ player[c].pos = 0
        /\ notifs[c] = <<>>

\* the <video> of the file chosen by a late joiner of a room in local-file mode
\* became ready at 20 s and playing
C32_WitnessLocal ==
    \E c \in Clients :
        /\ sent[c].step = "ready"
        /\ syncRef[c] = SyncState("local", Null, Null, Null, 20000, TRUE)
        /\ player[c].kind = "video"
        /\ player[c].ready /\ player[c].playing
        /\ player[c].pos = 20000

RemoteSteps == {"remote-play", "remote-pause", "remote-seek", "remote-video-change"}

\* C33: a remote command (play, pause, seek or source change) leaves the
\* suppression flag set and one more settle timer pending when its handler has
\* commanded the player; only the callback of a settle timer clears the flag;
\* the flag is not set when no timer is pending; and whenever the flag is set it
\* becomes false again, the timers firing.
C33_FlagSetThenCleared ==
    /\ [](\A c \in Clients :
             /\ timers[c] = 0 => ~isRemoteAction[c]
             /\ (sent[c].step \in RemoteSteps => (isRemoteAction[c] /\ timers[c] > 0)))
    /\ [][\A c \in Clients :
             /\ timers'[c] > timers[c] =>
                    (sent'[c].step \in RemoteSteps /\ isRemoteAction'[c])
             /\ (isRemoteAction[c] /\ ~isRemoteAction'[c]) =>
                    (sent'[c].step = "settle" /\ timers'[c] = timers[c] - 1)]_vars
    /\ \A c \in Clients : isRemoteAction[c] ~> ~isRemoteAction[c]

\* the timer of a remote source change has fired and cleared the flag
C33_Witness ==
    \E c \in Clients :
        /\ sent[c].step = "settle"
        /\ sent[c].flag
        /\ ~isRemoteAction[c]
        /\ timers[c] = 0
        /\ player[c].src = "magA"

\* nothing is on its way: no message on a connection, no notification of a
\* player undelivered, no settle timer pending
Quiescent ==
    \A c \in SessionClients :
        toServer[c] = <<>> /\ toClient[c] = <<>> /\ notifs[c] = <<>> /\ timers[c] = 0

\* C34: when the participants have stopped using the controls, each use having
\* been made on a page that was applying no remote command, and everything has
\* been delivered, then also after a play of one of them and a pause of the
\* other that crossed on the way the player of every member is playing exactly
\* if the room's stored isPlaying is true.
C34_MembersAgreeWithTheRoom ==
    (Quiescent /\ userActs.idle) =>
        \A c \in SessionClients : player[c].playing = rooms[SessionRoom].isPlaying

\* C35: a client that only applies remote commands (play, pause, seek, source
\* change) emits no intent, in whatever order its settle timers fire, its poll
\* ticks and its player's notifications are delivered.
C35_RemoteCommandsEmitNothing ==
    \A c \in Clients : sent[c].out = <<>>

\* C36: a late joiner whose player is initialised from the snapshot emits no
\* play, pause or seek intent, neither when the player's notifications are
\* delivered nor at a tick of the seek-detection poll.
C36_LateJoinEmitsNothing ==
    \A c \in Joiners :
        (syncRef[c] # NoSync /\ sent[c].step \in {"notify", "poll"}) =>
            sent[c].out = <<>>

\* C37: whenever the gateway has an active torrent it is a transfer of the
\* locator recorded in activeMagnet, and the selected file is the video file of
\* that locator: a transfer that was replaced or removed while it was connecting
\* does not become the active one.
C37_ActiveBelongsToLocator ==
    /\ activeTorrent # NoTorrent => torrents[activeTorrent].magnet = activeMagnet
    /\ activeFile # NoFile =>
           (activeMagnet # Null /\ activeFile = findVideoFile(FilesOf(activeMagnet)))

-----------------------------------------------------------------------------
(* The torrent players of the pages against the one gateway of the server *)

TpClients == {"s1", "s2"}
TpMagnets == {"magA", "magB"}

\* at most MaxTpAdds torrents are created and at most MaxGwReqs requests are
\* on their way to the gateway
MaxTpAdds == 3
MaxGwReqs == 3

\* a request of the page of c
GwRequest(c, op, magnetURI) == [from |-> c, op |-> op, magnetURI |-> magnetURI]

\* the effect of TorrentPlayer on [magnetURI]: fetch("/api/torrent/add")
TpAdd(c, magnetURI) == GwRequest(c, "add", magnetURI)

\* the cleanup of that effect: fetch("/api/torrent/remove"), not awaited
TpCleanup(c) == GwRequest(c, "remove", Null)

Mounted(magnetURI) == [magnetURI |-> magnetURI, used |-> TRUE]

\* page c renders a TorrentPlayer for magnetURI: the effect runs
TpMount(c, magnetURI) ==
    /\ tplayer[c].magnetURI = Null
    /\ Len(gwReqs) < MaxGwReqs
    /\ tplayer' = [tplayer EXCEPT ![c] = Mounted(magnetURI)]
    /\ gwReqs' = Append(gwReqs, TpAdd(c, magnetURI))
    /\ UNCHANGED <<roomVars, gwVars, clVars, netVars>>

\* page c stops rendering its TorrentPlayer (another kind of source, or the
\* page is left): the cleanup of the effect runs
TpUnmount(c) ==
    /\ tplayer[c].magnetURI # Null
    /\ Len(gwReqs) < MaxGwReqs
    /\ tplayer' = [tplayer EXCEPT ![c] = Mounted(Null)]
    /\ gwReqs' = Append(gwReqs, TpCleanup(c))
    /\ UNCHANGED <<roomVars, gwVars, clVars, netVars>>

\* the magnetURI prop of the TorrentPlayer of page c changes: the cleanup of
\* the effect runs and then the effect, neither waits for a response
TpSwitch(c, magnetURI) ==
    /\ tplayer[c].magnetURI \notin {Null, magnetURI}
    /\ Len(gwReqs) + 2 <= MaxGwReqs
    /\ tplayer' = [tplayer EXCEPT ![c] = Mounted(magnetURI)]
    /\ gwReqs' = gwReqs \o <<TpCleanup(c), TpAdd(c, magnetURI)>>
    /\ UNCHANGED <<roomVars, gwVars, clVars, netVars>>

\* the requests still on their way once request i has been handled
WithoutRequest(reqs, i) == SubSeq(reqs, 1, i - 1) \o SubSeq(reqs, i + 1, Len(reqs))

\* the gateway handles one of the requests on their way, in any order: each
\* fetch is a request of its own
TpServe(i) ==
    /\ i \in 1..Len(gwReqs)
    /\ IF gwReqs[i].op = "add"
       THEN AddRequest(gwReqs[i].magnetURI, MaxTpAdds)
       ELSE RemoveRequest
    /\ gwReqs' = WithoutRequest(gwReqs, i)
    /\ UNCHANGED <<roomVars, clVars, netVars, tplayer>>

NextTorrentPlayers ==
    \/ \E c \in TpClients, m \in TpMagnets : TpMount(c, m)
    \/ \E c \in TpClients : TpUnmount(c)
    \/ \E c \in TpClients, m \in TpMagnets : TpSwitch(c, m)
    \/ \E i \in 1..MaxGwReqs : TpServe(i)
    \/ ClientLoaded
    \/ \E id \in 1..MaxTpAdds : OnTorrent(id)

SpecTorrentPlayers == Init /\ [][NextTorrentPlayers]_vars


\* C38: while a page has the swarm source of the active transfer loaded in its
\* torrent player and keeps it, the removal that another page asked for (by
\* leaving, switching or unmounting) and that the gateway handles does not
\* reset the transfer:
\* the status does not become idle and the file that is streamed stays
C38_OthersDoNotResetTheTransfer ==
    [][(/\ activeTorrent # NoTorrent
        /\ activeFile # NoFile
        /\ \E i \in 1..Len(gwReqs) :
               /\ gwReqs[i].op = "remove"
               /\ gwReqs' = WithoutRequest(gwReqs, i)
               /\ \E c \in TpClients \ {gwReqs[i].from} :
                      /\ tplayer[c].magnetURI = activeMagnet
                      /\ tplayer'[c] = tplayer[c])
       => (Status(G').status # "idle" /\ activeFile' = activeFile)]_vars

\* C39: after a page that alone uses torrent sources has issued its requests
\* and the gateway has handled them all, in whatever order, the active locator
\* is the one of the page's mounted torrent player, and the status is not idle
C39_SwitchEndsWithTheNewLocator ==
    \A c \in TpClients :
        (/\ gwReqs = <<>>
         /\ waiting = <<>>
         /\ tplayer[c].magnetURI # Null
         /\ \A d \in TpClients \ {c} : ~tplayer[d].used)
        => (activeMagnet = tplayer[c].magnetURI /\ Status(G).status # "idle")

====
